---- MODULE Spec2Model ----
(***************************************************************************)
(* A TLA+ model of three CellProfiler modules:                             *)
(*   cellprofiler/modules/metadata.py                 (Metadata)           *)
(*   pyCellProfiler/cellprofiler/modules/exporttoexcel.py (ExportToExcel)  *)
(*   pyCellProfiler/cellprofiler/modules/applythreshold.py                 *)
(*                                                                         *)
(* Python strings whose characters matter (paths, file names, regular      *)
(* expression subjects, captured text) are sequences of one-character      *)
(* strings, so that splitting, searching and concatenation are computed.   *)
(* Python's None is the value None below; "" is the empty sequence << >>.  *)
(***************************************************************************)
EXTENDS Integers, Sequences, FiniteSets, TLC

VARIABLES
    extraction_methods, \* Metadata.extraction_methods: the list of rule groups
    pipeline_ipds,      \* pipeline.image_plane_details (owned by the pipeline)
    ipds,               \* Metadata.ipds
    table,              \* Metadata.table: [columns, rows]
    last,               \* the Metadata operation that ran last and how it ended
    object_groups,      \* ExportToExcel.object_groups
    module_settings,    \* ExportToExcel's option settings
    workspace_frame,    \* workspace.frame is not None
    measurements,       \* workspace.measurements
    image_set_number,   \* workspace.measurements.image_set_number
    pc,                 \* where ExportToExcel.run is
    files,              \* the file system: path |-> rows of the file
    dirs,               \* the file system: the directories
    calls,              \* the calls of run_objects made so far
    opened,             \* the files make_*_file opened so far, in order
    last_call           \* the method called on its own last, with its result

metaVars == <<extraction_methods, pipeline_ipds, ipds, table, last>>

exportVars == <<object_groups, module_settings, workspace_frame, measurements, image_set_number,
                pc, files, dirs, calls, opened>>

vars == <<metaVars, exportVars, last_call>>

(***************************************************************************)
(* Bounds of the model.                                                    *)
(***************************************************************************)
MaxMethods == 2     \* extraction-method groups in a configuration
MaxIpds == 2        \* image-plane records in the pipeline
MaxGroups == 3      \* object groups in an export configuration
MaxPixels == 3      \* pixels of an image handed to ApplyThreshold

(***************************************************************************)
(* Python values.                                                          *)
(***************************************************************************)
None == <<"None">>
PyTrue == "True"
PyFalse == "False"
PyNone == "None"

EmptyDict == [k \in {} |-> None]

\* dict.update: the keys of d are set in m, the other keys of m are kept
DictUpdate(m, d) ==
    [k \in (DOMAIN m) \cup (DOMAIN d) |-> IF k \in DOMAIN d THEN d[k] ELSE m[k]]

\* dict.get(key): None when the key is absent
DictGet(m, k) == IF k \in DOMAIN m THEN m[k] ELSE None

(***************************************************************************)
(* metadata.py: constants                                                  *)
(***************************************************************************)
X_AUTOMATIC_EXTRACTION == "Automatic"
X_MANUAL_EXTRACTION == "Manual"
X_IMPORTED_EXTRACTION == "Import metadata"
XM_FILE_NAME == "From file name"
XM_FOLDER_NAME == "From folder name"
F_ALL_IMAGES == "All images"
F_FILTERED_IMAGES == "Images selected using a filter"
COL_PATH == "Path / URL"
COL_SERIES == "Series"
COL_INDEX == "Index"
COL_CHANNEL == "Channel"

(***************************************************************************)
(* Regular expressions.  A pattern is [caret, items, dollar]: caret for a   *)
(* leading ^, dollar for a trailing $, and items a sequence of             *)
(* [name, set, rep], one character class `set` wrapped in a group named    *)
(* `name` (no group when name = ""), which is taken once (rep "one"),      *)
(* optional as a whole group (rep "opt", the group followed by ?), or      *)
(* greedily repeated inside the group (rep "star", the class followed by   *)
(* a star inside the group).                                               *)
(***************************************************************************)
Item(name, set, rep) == [name |-> name, set |-> set, rep |-> rep]

GroupNames(p) == {p.items[k].name : k \in 1..Len(p.items)} \ {""}

\* re.compile rejects a pattern that defines a group name twice
\* ("redefinition of group name")
Malformed(p) ==
    \E j, k \in 1..Len(p.items) :
        j < k /\ p.items[j].name /= "" /\ p.items[j].name = p.items[k].name

NoMatch == [matched |-> FALSE, caps |-> EmptyDict]

\* the number of consecutive characters of text from pos on that are in set
RECURSIVE RunLength(_, _, _)
RunLength(set, text, pos) ==
    IF pos <= Len(text) /\ text[pos] \in set
    THEN 1 + RunLength(set, text, pos + 1)
    ELSE 0

Capture(caps, name, s) ==
    IF name = "" THEN caps ELSE DictUpdate(caps, [k \in {name} |-> s])

\* The backtracking matcher: items k.. of p against text from pos on, with
\* the groups captured so far.  Greedy: the longer alternative is tried first.
RECURSIVE MatchFrom(_, _, _, _, _)
RECURSIVE MatchStar(_, _, _, _, _, _)
MatchFrom(p, k, text, pos, caps) ==
    IF k > Len(p.items)
    THEN IF p.dollar /\ pos /= Len(text) + 1
         THEN NoMatch
         ELSE [matched |-> TRUE, caps |-> caps]
    ELSE LET it == p.items[k]
             canTake == pos <= Len(text) /\ text[pos] \in it.set
             taken == MatchFrom(p, k + 1, text, pos + 1,
                                Capture(caps, it.name, <<text[pos]>>))
         IN  CASE it.rep = "one" -> IF canTake THEN taken ELSE NoMatch
               [] it.rep = "opt" ->
                    IF canTake /\ taken.matched
                    THEN taken
                    ELSE MatchFrom(p, k + 1, text, pos, caps)
               [] OTHER ->
                    MatchStar(p, k, text, pos, caps,
                              RunLength(it.set, text, pos))

MatchStar(p, k, text, pos, caps, n) ==
    LET it == p.items[k]
        r == MatchFrom(p, k + 1, text, pos + n,
                       Capture(caps, it.name, SubSeq(text, pos, pos + n - 1)))
    IN  IF r.matched \/ n = 0 THEN r
        ELSE MatchStar(p, k, text, pos, caps, n - 1)

\* the leftmost start at which the pattern matches, tried from `start` on
RECURSIVE SearchFrom(_, _, _)
SearchFrom(p, text, start) ==
    IF start > Len(text) + 1 THEN NoMatch
    ELSE LET r == MatchFrom(p, 1, text, start, EmptyDict)
         IN  IF r.matched THEN r
             ELSE IF p.caret THEN NoMatch
             ELSE SearchFrom(p, text, start + 1)

\* match.groupdict(): every named group of the pattern, None for a group
\* that did not take part in the match
groupdict(p, caps) == [n \in GroupNames(p) |-> DictGet(caps, n)]

\* re.search(pattern, text): raises re.error for a malformed pattern, else
\* None or a match object
re_search(p, text) ==
    IF Malformed(p)
    THEN [raised |-> TRUE, matched |-> FALSE, caps |-> EmptyDict]
    ELSE LET r == SearchFrom(p, text, 1)
         IN  [raised |-> FALSE, matched |-> r.matched, caps |-> r.caps]

(***************************************************************************)
(* The patterns, filters, records and rule groups the model draws from.    *)
(***************************************************************************)
AnyChar == {"a", "b", "/", "_", "A", "0"}

\* (?P<Well>a)
RE_WELL == [caret |-> FALSE, dollar |-> FALSE,
            items |-> <<Item("Well", {"a"}, "one")>>]
\* (?P<Plate>b)(?P<Well>a)?
RE_PLATE_OPT_WELL == [caret |-> FALSE, dollar |-> FALSE,
                      items |-> <<Item("Plate", {"b"}, "one"),
                                  Item("Well", {"a"}, "opt")>>]
\* ^(?P<Well>b*)
RE_WELL_STAR == [caret |-> TRUE, dollar |-> FALSE,
                 items |-> <<Item("Well", {"b"}, "star")>>]
\* (?P<Well>a)(?P<Well>b): re.error, redefinition of group name
RE_REDEFINED == [caret |-> FALSE, dollar |-> FALSE,
                 items |-> <<Item("Well", {"a"}, "one"),
                             Item("Well", {"b"}, "one")>>]
\* the default file expression, ^(?P<Plate>.*)_(?P<Well>[A-P][0-9]{2})_s...,
\* up to its second group: it needs an underscore in the file name
RE_DEFAULT_FILE == [caret |-> TRUE, dollar |-> FALSE,
                    items |-> <<Item("Plate", AnyChar, "star"),
                                Item("", {"_"}, "one"),
                                Item("Well", {"A"}, "one")>>]
\* the default folder expression, (?P<Date>[0-9]{4}_[0-9]{2}_[0-9]{2})$,
\* cut to its first digit: it needs a digit at the end of the folder name
RE_DEFAULT_FOLDER == [caret |-> FALSE, dollar |-> TRUE,
                      items |-> <<Item("Date", {"0"}, "one")>>]

\* the keys the patterns and records can produce, in Python's string order
KeyOrder == <<"Date", "Plate", "Well">>

\* Filters.  cps.Filter.evaluate answers True, False or None (no opinion).
FILTER_DEFAULT == "or (file does contain \"\")"
FILTER_FILE_A == "or (file does contain \"a\")"
FILTER_NO_OPINION == "or (directory does contain \"a\")"
Filters == {FILTER_DEFAULT, FILTER_FILE_A, FILTER_NO_OPINION}

\* ImagePlaneDetails records: path, series, index, channel, metadata
IPD(path, index, metadata) ==
    [path |-> path, series |-> 0, index |-> index, channel |-> 0,
     metadata |-> metadata]

Records ==
    { IPD(<<"b", "/", "b", "a">>, 0, EmptyDict),
      IPD(<<"a", "/", "a", "b">>, 1, [k \in {"Date"} |-> <<"b">>]),
      IPD(<<"b">>, 2, EmptyDict) }

Group(method, source, file_regexp, folder_regexp, filter_choice, filter) ==
    [extraction_method |-> method, source |-> source,
     file_regexp |-> file_regexp, folder_regexp |-> folder_regexp,
     filter_choice |-> filter_choice, filter |-> filter]

\* add_extraction_method: every setting of a new group has its default
\* (a Choice defaults to its first choice)
DefaultGroup ==
    Group(X_AUTOMATIC_EXTRACTION, XM_FILE_NAME, RE_DEFAULT_FILE,
          RE_DEFAULT_FOLDER, F_ALL_IMAGES, FILTER_DEFAULT)

\* the rule groups a loaded pipeline can hold
Groups ==
    { Group(X_MANUAL_EXTRACTION, XM_FILE_NAME, RE_WELL,
            RE_DEFAULT_FOLDER, F_ALL_IMAGES, FILTER_DEFAULT),
      Group(X_MANUAL_EXTRACTION, XM_FILE_NAME, RE_PLATE_OPT_WELL,
            RE_DEFAULT_FOLDER, F_FILTERED_IMAGES, FILTER_FILE_A),
      Group(X_MANUAL_EXTRACTION, XM_FOLDER_NAME, RE_DEFAULT_FILE,
            RE_WELL_STAR, F_FILTERED_IMAGES, FILTER_NO_OPINION),
      Group(X_MANUAL_EXTRACTION, XM_FILE_NAME, RE_REDEFINED,
            RE_DEFAULT_FOLDER, F_FILTERED_IMAGES, FILTER_FILE_A),
      Group(X_IMPORTED_EXTRACTION, XM_FOLDER_NAME, RE_WELL,
            RE_WELL_STAR, F_FILTERED_IMAGES, FILTER_DEFAULT) }

\* all sequences over S of length lo..hi
SeqsOf(S, lo, hi) == UNION {[1..n -> S] : n \in lo..hi}

\* those without a repeated element
DistinctSeqsOf(S, lo, hi) ==
    {q \in SeqsOf(S, lo, hi) : \A i, j \in 1..Len(q) : q[i] = q[j] => i = j}

(***************************************************************************)
(* metadata.py: the extraction functions                                   *)
(***************************************************************************)
\* the position of the last "/" of p, 0 when there is none (str.rfind + 1)
RECURSIVE RFindSlash(_, _)
RFindSlash(p, i) ==
    IF i = 0 THEN 0 ELSE IF p[i] = "/" THEN i ELSE RFindSlash(p, i - 1)

\* str.rstrip("/")
RECURSIVE RStripSlash(_)
RStripSlash(s) ==
    IF Len(s) > 0 /\ s[Len(s)] = "/"
    THEN RStripSlash(SubSeq(s, 1, Len(s) - 1))
    ELSE s

\* os.path.split(path): <<head, tail>>, the head without its trailing
\* slashes unless it consists of slashes only
os_path_split(p) ==
    LET i == RFindSlash(p, Len(p))
        head == SubSeq(p, 1, i)
        tail == SubSeq(p, i + 1, Len(p))
    IN  <<IF \E j \in 1..Len(head) : head[j] /= "/"
          THEN RStripSlash(head) ELSE head,
          tail>>

Contains(text, ch) == \E j \in 1..Len(text) : text[j] = ch

\* group.filter.evaluate((NODE_IMAGE_PLANE, modpath, module))
FilterEvaluate(filter, ipd) ==
    CASE filter = FILTER_DEFAULT -> PyTrue
      [] filter = FILTER_FILE_A ->
            IF Contains(os_path_split(ipd.path)[2], "a") THEN PyTrue ELSE PyFalse
      [] OTHER -> PyNone

\* Python's truth value of a filter result
Truthy(v) == v = PyTrue

\* a variant that also skips the rule when the filter has no opinion
FilterRejectsNone(match) == ~Truthy(match)

\* get_ipd_metadata: `if (not match) and match is not None: continue`
FilterRejects(match) == (~Truthy(match)) /\ match /= PyNone

Returned(v) == [raised |-> FALSE, value |-> v]
Raised == [raised |-> TRUE, value |-> EmptyDict]

manually_extract_metadata(group, ipd) ==
    LET text == IF group.source = XM_FILE_NAME
                THEN os_path_split(ipd.path)[2]
                ELSE os_path_split(ipd.path)[1]
        pattern == IF group.source = XM_FILE_NAME
                   THEN group.file_regexp
                   ELSE group.folder_regexp
        match == re_search(pattern, text)
    IN  IF group.source \notin {XM_FILE_NAME, XM_FOLDER_NAME}
        THEN Returned(EmptyDict)
        ELSE IF match.raised THEN Raised
        ELSE IF ~match.matched THEN Returned(EmptyDict)
        ELSE Returned(groupdict(pattern, match.caps))

automatically_extract_metadata(group, ipd) == Returned(EmptyDict)

import_metadata(group, ipd) == Returned(EmptyDict)

\* what one rule group contributes to a record's metadata
Extracted(group, ipd) ==
    CASE group.extraction_method = X_MANUAL_EXTRACTION ->
            manually_extract_metadata(group, ipd)
      [] group.extraction_method = X_AUTOMATIC_EXTRACTION ->
            automatically_extract_metadata(group, ipd)
      [] group.extraction_method = X_IMPORTED_EXTRACTION ->
            import_metadata(group, ipd)
      [] OTHER -> Returned(EmptyDict)

\* a variant in which a key already present keeps its value
MergeKeepingEarlier(m, contribution) == DictUpdate(contribution, m)

\* m.update(contribution)
Merge(m, contribution) == DictUpdate(m, contribution)

\* the loop of get_ipd_metadata from group i on, m the mapping so far
RECURSIVE ApplyMethods(_, _, _, _)
ApplyMethods(methods, i, ipd, m) ==
    IF i > Len(methods) THEN Returned(m)
    ELSE LET group == methods[i]
             skipped == group.filter_choice = F_FILTERED_IMAGES
                        /\ FilterRejects(FilterEvaluate(group.filter, ipd))
             c == Extracted(group, ipd)
         IN  IF skipped THEN ApplyMethods(methods, i + 1, ipd, m)
             ELSE IF c.raised THEN Raised
             ELSE ApplyMethods(methods, i + 1, ipd, Merge(m, c.value))

get_ipd_metadata(methods, ipd) == ApplyMethods(methods, 1, ipd, ipd.metadata)

\* a variant without the copy: m is the record's own mapping, so the
\* record holds the updates
UpdatedInPlace(metadata, m) == m

\* m = ipd.metadata.copy(): the updates are made to m, a new mapping, and
\* ipd.metadata is the mapping it was
UpdatedCopy(metadata, m) == metadata

\* the record as a call of get_ipd_metadata that ended with r leaves it
RecordAfter(ipd, r) ==
    IF r.raised THEN ipd
    ELSE [ipd EXCEPT !.metadata = UpdatedCopy(ipd.metadata, r.value)]

\* sorted(list(columns)) for a set of keys
SortedKeys(S) == SelectSeq(KeyOrder, LAMBDA k : k \in S)

FixedColumns == <<COL_PATH, COL_SERIES, COL_INDEX, COL_CHANNEL>>

\* a variant that shows an absent key as the empty string
CellEmptyString(metadata, column) ==
    IF column \in DOMAIN metadata THEN metadata[column] ELSE <<>>

\* the cell of a record's row for a metadata column: metadata.get(column)
Cell(metadata, column) == DictGet(metadata, column)

\* update_table, from the mappings its two loops get for the records (md in
\* the first loop, again in the second): the table it leaves and the
\* records as the calls leave them
update_table_rows(records, old, md, again) ==
    LET n == Len(records)
        keys == SortedKeys(UNION {DOMAIN md[i].value : i \in 1..n})
        row(i) == <<records[i].path, records[i].series, records[i].index,
                    records[i].channel>>
                  \o [j \in 1..Len(keys) |-> Cell(again[i].value, keys[j])]
    IN  IF \E i \in 1..n : md[i].raised
        THEN [raised |-> TRUE, table |-> old, records |-> records]
        ELSE [raised |-> FALSE,
              table |-> [columns |-> FixedColumns \o keys,
                         rows |-> [i \in 1..n |-> row(i)]],
              records |-> [i \in 1..n |->
                              RecordAfter(RecordAfter(records[i], md[i]), again[i])]]

\* update_table, the second loop: get_ipd_metadata is called again for
\* each record, on the record as the first call left it
update_table_again(methods, records, old, md) ==
    update_table_rows(records, old, md,
        [i \in 1..Len(records) |->
            IF md[i].raised THEN md[i]
            ELSE get_ipd_metadata(methods, RecordAfter(records[i], md[i]))])

\* update_table: the table it leaves, or the exception that escapes it (the
\* table is cleared only after the columns were computed)
update_table(methods, records, old) ==
    update_table_again(methods, records, old,
        [i \in 1..Len(records) |-> get_ipd_metadata(methods, records[i])])

(***************************************************************************)
(* Metadata: the module as a state machine.  A pipeline file is loaded     *)
(* into a freshly constructed module (prepare_settings, then the setting   *)
(* values), so the module starts with the constructor's single default     *)
(* group or with any loaded list of rule groups, and with no records and   *)
(* an empty table.  The pipeline lists each image plane once.              *)
(***************************************************************************)
EmptyTable == [columns |-> <<>>, rows |-> <<>>]

Last(op, ipd, raised, value) ==
    [op |-> op, ipd |-> ipd, raised |-> raised, value |-> value]

MetadataStart ==
    /\ extraction_methods \in {<<DefaultGroup>>} \cup SeqsOf(Groups, 1, MaxMethods)
    /\ pipeline_ipds \in DistinctSeqsOf(Records, 0, MaxIpds)
    /\ ipds = <<>>
    /\ table = EmptyTable
    /\ last = Last("create_settings", 0, FALSE, EmptyDict)

\* the "Add another extraction method" button
AddExtractionMethod ==
    /\ Len(extraction_methods) < MaxMethods
    /\ extraction_methods' = Append(extraction_methods, DefaultGroup)
    /\ last' = Last("add_extraction_method", 0, FALSE, EmptyDict)
    /\ UNCHANGED <<pipeline_ipds, ipds, table, exportVars, last_call>>

\* on_activated: the records the Images module's filter does not reject (all
\* records when there is no Images module before this one), then update_table
OnActivated ==
    \E images_filter \in {FILTER_FILE_A, "no Images module"} :
        LET kept == IF images_filter = "no Images module"
                    THEN pipeline_ipds
                    ELSE SelectSeq(pipeline_ipds,
                            LAMBDA ipd : FilterEvaluate(images_filter, ipd) /= PyFalse)
        IN  \E r \in {update_table(extraction_methods, kept, table)} :
            /\ ipds' = r.records
            /\ table' = r.table
            /\ last' = Last("on_activated", 0, r.raised, EmptyDict)
            /\ UNCHANGED <<extraction_methods, pipeline_ipds, exportVars, last_call>>

\* the "Update table" button
UpdateTable ==
    \E r \in {update_table(extraction_methods, ipds, table)} :
        /\ table' = r.table
        /\ ipds' = r.records
        /\ last' = Last("update_table", 0, r.raised, EmptyDict)
        /\ UNCHANGED <<extraction_methods, pipeline_ipds, exportVars, last_call>>

\* a call of get_ipd_metadata on the i-th record
GetIpdMetadata ==
    \E i \in 1..Len(ipds) :
        \E r \in {get_ipd_metadata(extraction_methods, ipds[i])} :
            /\ last' = Last("get_ipd_metadata", i, r.raised, r.value)
            /\ ipds' = [ipds EXCEPT ![i] = RecordAfter(ipds[i], r)]
            /\ UNCHANGED <<extraction_methods, pipeline_ipds, table,
                           exportVars, last_call>>

NextMetadata ==
    \/ AddExtractionMethod
    \/ OnActivated
    \/ UpdateTable
    \/ GetIpdMetadata


(***************************************************************************)
(* Metadata: properties                                                    *)
(***************************************************************************)
\* a call of get_ipd_metadata has just ended
Called == last.op = "get_ipd_metadata"
CalledIpd == ipds[last.ipd]
CallResult == [raised |-> last.raised, value |-> last.value]

WithoutRule(methods, k) ==
    SubSeq(methods, 1, k - 1) \o SubSeq(methods, k + 1, Len(methods))
Unfiltered(methods, k) == [methods EXCEPT ![k].filter_choice = F_ALL_IMAGES]
Filtered(k) == extraction_methods[k].filter_choice = F_FILTERED_IMAGES
Opinion(k) == FilterEvaluate(extraction_methods[k].filter, CalledIpd)

\* C1: for every record and every rule with the filter choice "Images
\* selected using a filter", the rule is skipped exactly when its filter
\* evaluates to False for the record: the result is then the result of the
\* rule list without that rule; when the filter says True or None the result
\* is the result of the same list with that rule's filter switched off.
C1_FilterSemantics ==
    Called =>
        \A k \in 1..Len(extraction_methods) :
            Filtered(k) =>
                IF Opinion(k) = PyFalse
                THEN CallResult =
                        get_ipd_metadata(WithoutRule(extraction_methods, k), CalledIpd)
                ELSE CallResult =
                        get_ipd_metadata(Unfiltered(extraction_methods, k), CalledIpd)

\* a record for which one rule was skipped on False although it would have
\* changed the result, and another ran on None and did change the result
C1_Witness ==
    /\ Called
    /\ \E j, k \in 1..Len(extraction_methods) :
        /\ Filtered(j) /\ Opinion(j) = PyFalse
        /\ CallResult /= get_ipd_metadata(Unfiltered(extraction_methods, j), CalledIpd)
        /\ Filtered(k) /\ Opinion(k) = PyNone
        /\ CallResult /= get_ipd_metadata(WithoutRule(extraction_methods, k), CalledIpd)

\* the text and the pattern a manual rule works on
RuleText(group, ipd) ==
    IF group.source = XM_FILE_NAME
    THEN os_path_split(ipd.path)[2] ELSE os_path_split(ipd.path)[1]
RulePattern(group) ==
    IF group.source = XM_FILE_NAME THEN group.file_regexp ELSE group.folder_regexp

\* the groups that took part in the unanchored search of a well-formed
\* pattern, with the text each captured; no keys when there is no match
Captures(group, ipd) == SearchFrom(RulePattern(group), RuleText(group, ipd), 1).caps

\* the rule list is one manual rule with a well-formed pattern, which the
\* rule's filter (if it has one) does not reject for the called record
SingleManualRule ==
    /\ Len(extraction_methods) = 1
    /\ extraction_methods[1].extraction_method = X_MANUAL_EXTRACTION
    /\ ~(Filtered(1) /\ Opinion(1) = PyFalse)
    /\ ~Malformed(RulePattern(extraction_methods[1]))

\* C2: with a single manual rule, the record's metadata is extended by
\* exactly the named-group captures of the search of the file name (source
\* "From file name") or of the folder name (source "From folder name"), and
\* by no key when the pattern does not match.
C2_ExactlyTheCaptures ==
    (Called /\ SingleManualRule) =>
        /\ ~last.raised
        /\ last.value = DictUpdate(CalledIpd.metadata,
                                   Captures(extraction_methods[1], CalledIpd))

\* the result of the first k rules for the called record
After(k) ==
    IF k = Len(extraction_methods) THEN CallResult
    ELSE get_ipd_metadata(SubSeq(extraction_methods, 1, k), CalledIpd)

\* rule k ran for the called record, its pattern matched, and group n of its
\* pattern did not take part in the match
Unmatched(k, n) ==
    LET group == extraction_methods[k] IN
    /\ group.extraction_method = X_MANUAL_EXTRACTION
    /\ ~(Filtered(k) /\ Opinion(k) = PyFalse)
    /\ ~Malformed(RulePattern(group))
    /\ SearchFrom(RulePattern(group), RuleText(group, CalledIpd), 1).matched
    /\ n \in GroupNames(RulePattern(group)) \ DOMAIN Captures(group, CalledIpd)

\* C3: a named group that did not take part in a rule's match contributes no
\* key: the key is absent after the rule if it was absent before, and keeps
\* the earlier value otherwise.
C3_UnmatchedGroupNoKey ==
    (Called /\ ~last.raised) =>
        \A k \in 1..Len(extraction_methods) :
            \A n \in GroupNames(RulePattern(extraction_methods[k])) :
                Unmatched(k, n) =>
                    LET before == After(k - 1).value
                        after == After(k).value
                    IN  IF n \in DOMAIN before
                        THEN n \in DOMAIN after /\ after[n] = before[n]
                        ELSE n \notin DOMAIN after

\* the rules that ran for the called record and produced key x
Producers(x) ==
    {k \in 1..Len(extraction_methods) :
        /\ ~(Filtered(k) /\ Opinion(k) = PyFalse)
        /\ x \in DOMAIN Extracted(extraction_methods[k], CalledIpd).value}

Max(S) == CHOOSE k \in S : \A j \in S : j <= k

AllKeys == {KeyOrder[j] : j \in 1..Len(KeyOrder)}

\* C4: the result holds the record's own keys and every key a rule produced;
\* a key that rules produced has the value of the last rule in the list that
\* produced it, and any other key keeps the record's value.
C4_LaterRuleWins ==
    (Called /\ ~last.raised) =>
        /\ DOMAIN last.value =
              DOMAIN CalledIpd.metadata \cup {x \in AllKeys : Producers(x) /= {}}
        /\ \A x \in DOMAIN last.value :
              IF Producers(x) /= {}
              THEN last.value[x] =
                      Extracted(extraction_methods[Max(Producers(x))], CalledIpd).value[x]
              ELSE last.value[x] = CalledIpd.metadata[x]

\* two rules produced different values for one key, and another key comes
\* from the first rule only
C4_Witness ==
    /\ Called /\ ~last.raised
    /\ Len(extraction_methods) = 2
    /\ \E x, y \in DOMAIN last.value :
        /\ Producers(x) = {1, 2}
        /\ Extracted(extraction_methods[1], CalledIpd).value[x]
              /= Extracted(extraction_methods[2], CalledIpd).value[x]
        /\ Producers(y) = {1}

KeyRank(x) == CHOOSE j \in 1..Len(KeyOrder) : KeyOrder[j] = x

\* update_table has just returned normally
Updated == last.op \in {"update_table", "on_activated"} /\ ~last.raised

RecordKeys(i) == DOMAIN get_ipd_metadata(extraction_methods, ipds[i]).value

\* C5: after update_table the columns are Path / URL, Series, Index, Channel
\* followed by the union of the keys of all current records in ascending
\* order, and there is one row per record, in record order, whose metadata
\* cells hold the record's value, or None where the record lacks the key.
C5_TableRebuild ==
    Updated =>
        LET cols == table.columns
            keys == UNION {RecordKeys(i) : i \in 1..Len(ipds)}
        IN  /\ Len(cols) = 4 + Cardinality(keys)
            /\ SubSeq(cols, 1, 4) = <<COL_PATH, COL_SERIES, COL_INDEX, COL_CHANNEL>>
            /\ {cols[j] : j \in 5..Len(cols)} = keys
            /\ \A i, j \in 5..Len(cols) : i < j => KeyRank(cols[i]) < KeyRank(cols[j])
            /\ Len(table.rows) = Len(ipds)
            /\ \A i \in 1..Len(ipds) :
                LET row == table.rows[i]
                    md == get_ipd_metadata(extraction_methods, ipds[i]).value
                IN  /\ Len(row) = Len(cols)
                    /\ row[1] = ipds[i].path /\ row[2] = ipds[i].series
                    /\ row[3] = ipds[i].index /\ row[4] = ipds[i].channel
                    /\ \A j \in 5..Len(cols) :
                        IF cols[j] \in DOMAIN md
                        THEN row[j] = md[cols[j]]
                        ELSE row[j] = None /\ row[j] /= <<>>

\* a table of two records and two key columns in which one record lacks a
\* key another has, and one cell holds an extracted empty string
C5_Witness ==
    /\ Updated
    /\ Len(table.rows) = 2 /\ Len(table.columns) >= 6
    /\ \E i \in 1..2 : \E j \in 5..Len(table.columns) :
        table.columns[j] \notin RecordKeys(i) /\ table.rows[i][j] = None
    /\ \E i \in 1..2 : \E j \in 5..Len(table.columns) : table.rows[i][j] = <<>>

\* C10: per-record extraction (get_ipd_metadata, update_table) never raises
\* because of a rule's pattern.
C10_ExtractionNeverRaises ==
    last.op \in {"get_ipd_metadata", "update_table", "on_activated"} => ~last.raised

(***************************************************************************)
(***************************************************************************)
(* exporttoexcel.py                                                        *)
(***************************************************************************)
(***************************************************************************)
IMAGE == "Image"
EXPERIMENT == "Experiment"
IMAGE_NUMBER == "ImageNumber"
OBJECT_NUMBER == "ObjectNumber"

\* np.NAN as the csv writer writes it
NaN == "nan"

\* the column count from which the Excel-limit option asks the user
EXCEL_COLUMN_LIMIT == 256

\* csv.writer writes str(value) for every cell
CellStr(v) == ToString(v)

\* every feature name of the model, in Python's string order
NameOrder ==
    <<"AreaShape_Area", "Count_Cells", "Count_Nuclei", "ExecutionTime_Nuclei",
      "ImageNumber", "Intensity_Mean", "Mean_Cells_AreaShape_Area",
      "Mean_Nuclei_AreaShape_Area", "Metadata_Plate", "Metadata_Well",
      "ObjectNumber", "Run_Timestamp">>

\* list.sort() of a list of feature names (a name listed twice stays twice)
RECURSIVE SortFrom(_, _)
SortFrom(names, j) ==
    IF j > Len(NameOrder) THEN <<>>
    ELSE SelectSeq(names, LAMBDA x : x = NameOrder[j]) \o SortFrom(names, j + 1)

SortedNames(names) == SortFrom(names, 1)

\* the elements of a list
Range(seq) == {seq[j] : j \in 1..Len(seq)}

\* the elements of a set of names as a list
RECURSIVE SetToSeq(_)
SetToSeq(S) ==
    IF S = {} THEN <<>>
    ELSE LET x == CHOOSE y \in S : TRUE IN <<x>> \o SetToSeq(S \ {x})

\* name.startswith("Metadata_")
IsMetadataFeature(name) == name \in {"Metadata_Plate", "Metadata_Well"}

\* "Count_%s" % name
CountFeature(name) ==
    IF name = "Nuclei" THEN "Count_Nuclei" ELSE "Count_Cells"

(***************************************************************************)
(* File names.  A file-name setting is a sequence of characters and of     *)
(* metadata placeholders of the form \g<tag>.                              *)
(***************************************************************************)
Tags == {"Plate", "Well"}

Token(tag) == IF tag = "Plate" THEN "\\g<Plate>" ELSE "\\g<Well>"

IsToken(x) == \E tag \in Tags : x = Token(tag)

TagOf(x) == CHOOSE tag \in Tags : x = Token(tag)

\* cpmeas.find_metadata_tokens(file_name): the tags of the placeholders
find_metadata_tokens(file_name) ==
    LET tokens == SelectSeq(file_name, IsToken)
    IN  [j \in 1..Len(tokens) |-> TagOf(tokens[j])]

(***************************************************************************)
(* The measurements of a finished run (cellprofiler.measurements).         *)
(*   count     the number of image sets                                    *)
(*   meta      per image index, the metadata tags of the image             *)
(*   objects   per object name and image index, the number of objects      *)
(***************************************************************************)
Store(count, meta, objects) ==
    [count |-> count, meta |-> meta, objects |-> objects]

ObjectNames == {"Nuclei", "Cells"}

\* a tag that some image set carries
HasTag(m, tag) == \E i \in 0..(m.count - 1) : tag \in DOMAIN m.meta[i]

\* m.get_feature_names(object_name), in no particular order.  The Image
\* features are the counts, the metadata tags in use, a measurement that has
\* the name of an aggregate and one that is stored as an array.
get_feature_names(m, object_name) ==
    CASE object_name = IMAGE ->
            (IF HasTag(m, "Plate") THEN <<"Metadata_Plate">> ELSE <<>>)
            \o <<"Count_Nuclei", "Mean_Nuclei_AreaShape_Area">>
            \o (IF HasTag(m, "Well") THEN <<"Metadata_Well">> ELSE <<>>)
            \o <<"ExecutionTime_Nuclei", "Count_Cells">>
      [] object_name = EXPERIMENT -> <<"Run_Timestamp", "Pipeline_Pipeline">>
      [] object_name = "Nuclei" -> <<"Intensity_Mean", "AreaShape_Area">>
      [] OTHER -> <<"AreaShape_Area">>

\* the Image measurements that are stored as an array of one value
IsArrayValued(feature_name) == feature_name = "ExecutionTime_Nuclei"

\* m.get_measurement(IMAGE, feature_name, index)
ImageMeasurement(m, feature_name, index) ==
    CASE feature_name = "Count_Nuclei" -> m.objects["Nuclei"][index]
      [] feature_name = "Count_Cells" -> m.objects["Cells"][index]
      [] feature_name = "Metadata_Plate" -> DictGet(m.meta[index], "Plate")
      [] feature_name = "Metadata_Well" -> DictGet(m.meta[index], "Well")
      [] feature_name = "ExecutionTime_Nuclei" -> <<<<"time", index>>>>
      [] OTHER -> <<"raw", feature_name, index>>

\* m.get_measurement(object_name, feature_name, index): one value per object
ObjectMeasurement(m, object_name, feature_name, index) ==
    [k \in 1..m.objects[object_name][index] |->
        <<object_name, feature_name, index, k>>]

\* m.compute_aggregate_measurements(index)
compute_aggregate_measurements(m, index) ==
    [x \in {"Mean_Nuclei_AreaShape_Area", "Mean_Cells_AreaShape_Area"} |->
        <<"mean", x, index>>]

\* m.get_all_measurements(EXPERIMENT, feature_name)
get_all_measurements(m, feature_name) == <<"all", feature_name, m.count>>

\* the indexes, in ascending order, that carry every one of the tags
RECURSIVE Eligible(_, _, _)
Eligible(m, tags, i) ==
    IF i >= m.count THEN <<>>
    ELSE (IF \A j \in 1..Len(tags) : tags[j] \in DOMAIN m.meta[i]
          THEN <<i>> ELSE <<>>) \o Eligible(m, tags, i + 1)

TagValues(m, tags, i) == [j \in 1..Len(tags) |-> m.meta[i][tags[j]]]

\* m.group_by_metadata(tags): one group of indexes per combination of tag
\* values, in the order of the first image of each
RECURSIVE GroupIndexes(_, _, _, _)
GroupIndexes(m, tags, todo, groups) ==
    IF todo = <<>> THEN groups
    ELSE LET i == Head(todo)
             same(g) == TagValues(m, tags, groups[g][1]) = TagValues(m, tags, i)
         IN  IF \E g \in 1..Len(groups) : same(g)
             THEN GroupIndexes(m, tags, Tail(todo),
                     [g \in 1..Len(groups) |->
                        IF same(g) THEN Append(groups[g], i) ELSE groups[g]])
             ELSE GroupIndexes(m, tags, Tail(todo), Append(groups, <<i>>))

group_by_metadata(m, tags) == GroupIndexes(m, tags, Eligible(m, tags, 0), <<>>)

\* m.apply_metadata(file_name, index): every placeholder replaced by the
\* image's value of the tag
RECURSIVE apply_metadata(_, _, _)
apply_metadata(m, file_name, index) ==
    IF file_name = <<>> THEN <<>>
    ELSE (IF IsToken(Head(file_name))
          THEN m.meta[index][TagOf(Head(file_name))]
          ELSE <<Head(file_name)>>)
         \o apply_metadata(m, Tail(file_name), index)

(***************************************************************************)
(* ExportToExcel: settings and file making                                 *)
(***************************************************************************)
\* an object group: OG_OBJECT_NAME, OG_PREVIOUS_FILE, OG_FILE_NAME
OG(name, previous_file, file_name) ==
    [name |-> name, previous_file |-> previous_file, file_name |-> file_name]

is_object_group(group) == group.name \notin {IMAGE, EXPERIMENT}

\* the default output directory and the base name of the output file
\* (cellprofiler.preferences)
DefaultOutputDirectory == <<"/", "o">>
OutputBase == <<"O">>

\* get_absolute_path(file_name): a relative name is taken from the default
\* output directory
get_absolute_path(file_name) ==
    IF Len(file_name) > 0 /\ file_name[1] = "/" THEN file_name
    ELSE DefaultOutputDirectory \o <<"/">> \o file_name

\* os.path.join(path, file)
os_path_join(path, file) ==
    IF path = <<>> THEN file
    ELSE IF path[Len(path)] = "/" THEN path \o file
    ELSE path \o <<"/">> \o file

\* make_full_filename: the path of the file and the directory it needs;
\* with_index is FALSE when no image set is given
make_full_filename(opts, m, file_name, with_index, image_set_index) ==
    LET named == IF with_index
                 THEN apply_metadata(m, file_name, image_set_index)
                 ELSE file_name
        parts == os_path_split(get_absolute_path(named))
        file == IF opts.prepend_output_filename
                THEN OutputBase \o parts[2] ELSE parts[2]
    IN  [name |-> os_path_join(parts[1], file), path |-> parts[1]]

\* a row of a file: a header row, or a data row of image set `img`
HeaderRow(cells) == [kind |-> "header", img |-> 0, cells |-> cells]
DataRow(img, cells) == [kind |-> "data", img |-> img, cells |-> cells]

\* what the column dialog can answer: OK with every column checked, OK with
\* the last column unchecked, or Cancel
Replies == {"ok", "ok without last", "cancel"}

\* a variant that does not look at the number of columns
BypassedWhateverTheCount(frame, opts, columns) ==
    \/ ~frame
    \/ (~opts.pick_columns /\ ~opts.excel_limits)

\* the dialog is not shown
Bypassed(frame, opts, columns) ==
    \/ ~frame
    \/ (~opts.pick_columns
        /\ (~opts.excel_limits \/ Len(columns) < EXCEL_COLUMN_LIMIT))

\* user_filter_columns: the columns kept, or None (cancelled) when the dialog
\* does not end with OK
user_filter_columns(frame, opts, columns, reply) ==
    IF Bypassed(frame, opts, columns)
    THEN [cancelled |-> FALSE, columns |-> columns]
    ELSE IF reply = "cancel" THEN [cancelled |-> TRUE, columns |-> <<>>]
    ELSE IF reply = "ok" THEN [cancelled |-> FALSE, columns |-> columns]
    ELSE [cancelled |-> FALSE,
          columns |-> SubSeq(columns, 1, Len(columns) - 1)]

Pairs(object_name, names) ==
    [j \in 1..Len(names) |-> <<object_name, names[j]>>]

\* make_object_file: the sorted features of every object of the unit
RECURSIVE ObjectFeatures(_, _)
ObjectFeatures(m, object_names) ==
    IF object_names = <<>> THEN <<>>
    ELSE Pairs(Head(object_names),
               SortedNames(get_feature_names(m, Head(object_names))))
         \o ObjectFeatures(m, Tail(object_names))

\* a variant that adds the index columns whatever the option says
FeaturesAlwaysIndexed(opts, m, object_names) ==
    <<<<IMAGE, IMAGE_NUMBER>>, <<object_names[1], OBJECT_NUMBER>>>>
    \o (IF opts.add_metadata
        THEN Pairs(IMAGE, SortedNames(SelectSeq(get_feature_names(m, IMAGE),
                                                IsMetadataFeature)))
        ELSE <<>>)
    \o ObjectFeatures(m, object_names)

\* make_object_file: the (object, feature) columns before the dialog
Features(opts, m, object_names) ==
    (IF opts.add_indexes
     THEN <<<<IMAGE, IMAGE_NUMBER>>, <<object_names[1], OBJECT_NUMBER>>>>
     ELSE <<>>)
    \o (IF opts.add_metadata
        THEN Pairs(IMAGE, SortedNames(SelectSeq(get_feature_names(m, IMAGE),
                                                IsMetadataFeature)))
        ELSE <<>>)
    \o ObjectFeatures(m, object_names)

\* np.max of a sequence of counts
RECURSIVE MaxOf(_)
MaxOf(counts) ==
    IF Len(counts) = 1 THEN counts[1]
    ELSE LET rest == MaxOf(Tail(counts))
         IN  IF counts[1] >= rest THEN counts[1] ELSE rest

\* a variant that holds an Image measurement once instead of repeating it
ColumnWithoutRepeat(m, feature, img_index, object_count) ==
    IF feature[2] = IMAGE_NUMBER
    THEN [k \in 1..object_count |-> CellStr(img_index + 1)]
    ELSE IF feature[2] = OBJECT_NUMBER
    THEN [k \in 1..object_count |-> CellStr(k)]
    ELSE IF feature[1] = IMAGE
    THEN <<CellStr(ImageMeasurement(m, feature[2], img_index))>>
    ELSE [k \in 1..Len(ObjectMeasurement(m, feature[1], feature[2], img_index)) |->
            CellStr(ObjectMeasurement(m, feature[1], feature[2], img_index)[k])]

\* make_object_file: the values of one column for one image set
Column(m, feature, img_index, object_count) ==
    IF feature[2] = IMAGE_NUMBER
    THEN [k \in 1..object_count |-> CellStr(img_index + 1)]
    ELSE IF feature[2] = OBJECT_NUMBER
    THEN [k \in 1..object_count |-> CellStr(k)]
    ELSE IF feature[1] = IMAGE
    THEN [k \in 1..object_count |->
            CellStr(ImageMeasurement(m, feature[2], img_index))]
    ELSE LET values == ObjectMeasurement(m, feature[1], feature[2], img_index)
         IN  [k \in 1..Len(values) |-> CellStr(values[k])]

\* a variant that writes zero where an object has no value
PaddedCellZero(column, obj_index) ==
    IF obj_index < Len(column) THEN column[obj_index + 1] ELSE CellStr(0)

\* make_object_file: column[obj_index] if obj_index < column.shape[0]
\* else np.NAN
PaddedCell(column, obj_index) ==
    IF obj_index < Len(column) THEN column[obj_index + 1] ELSE NaN

\* make_object_file: the data rows of one image set
ImageRows(m, object_names, features, img_index) ==
    LET object_count ==
            MaxOf([j \in 1..Len(object_names) |->
                    ImageMeasurement(m, CountFeature(object_names[j]), img_index)])
        columns == [c \in 1..Len(features) |->
                    Column(m, features[c], img_index, object_count)]
    IN  [r \in 1..object_count |->
            DataRow(img_index,
                    [c \in 1..Len(features) |-> PaddedCell(columns[c], r - 1)])]

RECURSIVE AllImageRows(_, _, _, _)
AllImageRows(m, object_names, features, image_set_indexes) ==
    IF image_set_indexes = <<>> THEN <<>>
    ELSE ImageRows(m, object_names, features, Head(image_set_indexes))
         \o AllImageRows(m, object_names, features, Tail(image_set_indexes))

\* a variant that writes the feature names only
HeadersWithoutObjectNames(object_names, features) ==
    <<HeaderRow([c \in 1..Len(features) |-> features[c][2]])>>

\* make_object_file: the object names in a first header row if there are
\* several objects, then the feature names
Headers(object_names, features) ==
    (IF Len(object_names) > 1
     THEN <<HeaderRow([c \in 1..Len(features) |-> features[c][1]])>>
     ELSE <<>>)
    \o <<HeaderRow([c \in 1..Len(features) |-> features[c][2]])>>

\* make_object_file after the file was opened: what the file holds when it
\* is closed, and whether an exception escapes.  A cancelled dialog gives
\* None, and `[x.split(':') for x in features]` raises TypeError.
make_object_file(opts, m, frame, object_names, image_set_indexes, reply) ==
    LET picked == user_filter_columns(frame, opts,
                                      Features(opts, m, object_names), reply)
        features == picked.columns
        headers == Headers(object_names, features)
    IN  IF picked.cancelled
        THEN [raised |-> TRUE, cancelled |-> TRUE, columns |-> <<>>,
              rows |-> <<>>]
        ELSE [raised |-> FALSE, cancelled |-> FALSE, columns |-> features,
              rows |-> headers \o AllImageRows(m, object_names, features,
                                               image_set_indexes)]

\* make_image_file: `x if np.isscalar(x) else x[0]`
ScalarOrFirst(feature_name, x) ==
    IF IsArrayValued(feature_name) THEN x[1] ELSE x

\* a variant that reads the stored measurement before the aggregate
ImageCellStoredFirst(m, agg_measurements, feature_name, index) ==
    IF feature_name = IMAGE_NUMBER THEN CellStr(index + 1)
    ELSE IF feature_name \in Range(get_feature_names(m, IMAGE))
    THEN CellStr(ScalarOrFirst(feature_name,
                               ImageMeasurement(m, feature_name, index)))
    ELSE CellStr(agg_measurements[feature_name])

\* make_image_file: one value of a row
ImageCell(m, agg_measurements, feature_name, index) ==
    IF feature_name = IMAGE_NUMBER THEN CellStr(index + 1)
    ELSE IF feature_name \in DOMAIN agg_measurements
    THEN CellStr(agg_measurements[feature_name])
    ELSE CellStr(ScalarOrFirst(feature_name,
                               ImageMeasurement(m, feature_name, index)))

\* make_image_file: the row of one image set
ImageFileRow(m, image_features, index) ==
    LET agg_measurements == compute_aggregate_measurements(m, index)
    IN  DataRow(index,
            [c \in 1..Len(image_features) |->
                ImageCell(m, agg_measurements, image_features[c], index)])

\* make_image_file after the file was opened.  A cancelled dialog makes it
\* return before the header is written.
make_image_file(opts, m, frame, image_set_indexes, reply) ==
    LET first == image_set_indexes[1]
        ordered_agg_names ==
            SortedNames(SetToSeq(DOMAIN compute_aggregate_measurements(m, first)))
        all == SortedNames((IF opts.add_indexes THEN <<IMAGE_NUMBER>> ELSE <<>>)
                           \o get_feature_names(m, IMAGE)
                           \o ordered_agg_names)
        picked == user_filter_columns(frame, opts, all, reply)
        image_features == picked.columns
    IN  IF picked.cancelled
        THEN [raised |-> FALSE, cancelled |-> TRUE, columns |-> <<>>,
              rows |-> <<>>]
        ELSE [raised |-> FALSE, cancelled |-> FALSE,
              columns |-> Pairs(IMAGE, image_features),
              rows |-> <<HeaderRow(image_features)>>
                       \o [k \in 1..Len(image_set_indexes) |->
                            ImageFileRow(m, image_features, image_set_indexes[k])]]

\* a variant that writes the feature names as a header first
make_experiment_file_with_header(m) ==
    <<HeaderRow(get_feature_names(m, EXPERIMENT))>>
    \o [k \in 1..Len(get_feature_names(m, EXPERIMENT)) |->
           DataRow(0, <<get_feature_names(m, EXPERIMENT)[k],
                        CellStr(get_all_measurements(m,
                                   get_feature_names(m, EXPERIMENT)[k]))>>)]

\* make_experiment_file after the file was opened: one row per feature
make_experiment_file(m) ==
    LET names == get_feature_names(m, EXPERIMENT)
    IN  [k \in 1..Len(names) |->
            DataRow(0, <<names[k], CellStr(get_all_measurements(m, names[k]))>>)]

\* a variant that lets a group join the previous file whatever comes next
last_in_file_ignoring_next_kind(groups, i) ==
    \/ i = Len(groups)
    \/ ~is_object_group(groups[i])
    \/ ~groups[i + 1].previous_file

\* run: group i is the last one of its file
last_in_file(groups, i) ==
    \/ i = Len(groups)
    \/ ~is_object_group(groups[i])
    \/ ~is_object_group(groups[i + 1])
    \/ ~groups[i + 1].previous_file

\* run: the loop from group i on, up to its next call of run_objects
RECURSIVE CollectUnit(_, _, _, _)
CollectUnit(groups, i, object_names, filename) ==
    LET name == IF Len(object_names) = 0 THEN groups[i].file_name ELSE filename
        names == Append(object_names, groups[i].name)
    IN  IF last_in_file(groups, i)
        THEN [object_names |-> names, file_name |-> name, next |-> i + 1]
        ELSE CollectUnit(groups, i + 1, names, name)

(***************************************************************************)
(* ExportToExcel: the module as a state machine.  run is followed call by  *)
(* call: one step per call of run_objects and one per file it makes.       *)
(***************************************************************************)
Options(prepend, add_metadata, add_indexes, excel_limits, pick_columns) ==
    [prepend_output_filename |-> prepend, add_metadata |-> add_metadata,
     add_indexes |-> add_indexes, excel_limits |-> excel_limits,
     pick_columns |-> pick_columns]

Dict1(k, v) == [x \in {k} |-> v]
Dict2(k1, v1, k2, v2) == [x \in {k1, k2} |-> IF x = k1 THEN v1 ELSE v2]

\* two plates; Nuclei and Cells differ in number in both image sets
M_PLATES ==
    Store(2,
          [i \in 0..1 |-> IF i = 0 THEN Dict1("Plate", <<"A">>)
                          ELSE Dict1("Plate", <<"B">>)],
          [o \in ObjectNames |->
             [i \in 0..1 |-> IF o = "Nuclei" THEN (IF i = 0 THEN 3 ELSE 1)
                             ELSE 2]])

\* the middle image set has no Plate tag; some images have no objects
M_UNTAGGED ==
    Store(3,
          [i \in 0..2 |-> IF i = 1 THEN EmptyDict ELSE Dict1("Plate", <<"A">>)],
          [o \in ObjectNames |->
             [i \in 0..2 |-> IF o = "Nuclei" THEN (IF i = 0 THEN 0 ELSE 2)
                             ELSE (IF i = 1 THEN 0 ELSE 1)]])

\* two tags whose values run together to the same text
M_TWO_TAGS ==
    Store(2,
          [i \in 0..1 |-> IF i = 0
                          THEN Dict2("Plate", <<"A">>, "Well", <<"B", "C">>)
                          ELSE Dict2("Plate", <<"A", "B">>, "Well", <<"C">>)],
          [o \in ObjectNames |-> [i \in 0..1 |-> 1]])

\* the object groups a configuration is built from
GroupChoices ==
    { OG("Nuclei", FALSE, <<"n">>),
      OG("Cells", TRUE, <<"x">>),
      OG("Cells", FALSE, <<"c">>),
      OG(IMAGE, TRUE, <<"d", "/", "i">>),
      OG(EXPERIMENT, FALSE, <<"e">>) }

\* configurations whose file names hold metadata placeholders
TaggedConfigurations ==
    { <<OG("Nuclei", FALSE, <<"n", Token("Plate")>>), OG("Cells", TRUE, <<"x">>)>>,
      <<OG(IMAGE, FALSE, <<"p", Token("Plate")>>), OG("Cells", FALSE, <<"c">>)>>,
      <<OG("Nuclei", FALSE, <<Token("Plate"), Token("Well")>>)>>,
      <<OG(EXPERIMENT, FALSE, <<"e", Token("Plate")>>)>> }

Idle == [at |-> "idle", i |-> 0, object_names |-> <<>>, file_name |-> <<>>,
         pending |-> <<>>]

\* no method was called on its own
NoCall == [op |-> "none"]

ExportStart ==
    /\ last_call = NoCall
    /\ image_set_number = 0
    /\ pc = Idle
    /\ files = EmptyDict
    /\ dirs = {DefaultOutputDirectory}
    /\ calls = <<>>
    /\ opened = <<>>

\* any list of object groups, with the default options but the column
\* dialog switched on
InitUnits ==
    /\ object_groups \in SeqsOf(GroupChoices, 1, MaxGroups)
    /\ module_settings = Options(TRUE, FALSE, FALSE, FALSE, TRUE)
    /\ workspace_frame \in BOOLEAN
    /\ measurements = M_PLATES

\* the configurations with placeholders, with every choice of options
InitTagged ==
    /\ object_groups \in TaggedConfigurations
    /\ module_settings \in {Options(p, md, ix, FALSE, pick) : p, md, ix, pick \in BOOLEAN}
    /\ workspace_frame \in BOOLEAN
    /\ measurements \in {M_PLATES, M_UNTAGGED, M_TWO_TAGS}

MetadataIdle ==
    /\ extraction_methods = <<DefaultGroup>>
    /\ pipeline_ipds = <<>>
    /\ ipds = <<>>
    /\ table = EmptyTable
    /\ last = Last("create_settings", 0, FALSE, EmptyDict)

InitExport == MetadataIdle /\ ExportStart /\ (InitUnits \/ InitTagged)

\* how the file system answers os.makedirs and open(file_name, "w")
IoOutcomes == {"ok", "makedirs fails", "open fails"}

\* os.path.isdir(path)
os_path_isdir(ds, path) == path \in ds

\* make_full_filename: `if not os.path.isdir(path): os.makedirs(path)`; a
\* failing makedirs raises OSError and creates nothing
os_makedirs(ds, path, io) ==
    IF io = "makedirs fails" THEN ds ELSE ds \cup {path}

\* a variant that empties the file also when the open fails
open_w_always_truncating(fs, name, io) == DictUpdate(fs, Dict1(name, <<>>))

\* open(file_name, "w"): the file is created or emptied; a failing open
\* raises IOError and leaves the file system as it is
open_w(fs, name, io) ==
    IF io = "open fails" THEN fs ELSE DictUpdate(fs, Dict1(name, <<>>))

\* writer.writerow for every row, then fd.close()
write_rows(fs, name, io, rows) ==
    IF io = "open fails" THEN fs ELSE DictUpdate(fs, Dict1(name, rows))

\* how the try block of a make_..._file function is left
TryExit(cancelled, raised) ==
    IF raised THEN "raised" ELSE IF cancelled THEN "returned" ELSE "completed"

\* a variant that closes the file as the last statement of the try block
fd_closed_at_end_of_try(exit) == exit = "completed"

\* try: ... finally: fd.close() -- the file is closed however the try
\* block is left
fd_closed(exit) == exit \in {"completed", "returned", "raised"}

At(at, i, object_names, file_name, pending) ==
    [at |-> at, i |-> i, object_names |-> object_names,
     file_name |-> file_name, pending |-> pending]

\* a variant that takes the cycle before the last one for the last one
NotLastCycleOffByOne(number, count) == number < count - 2

\* run: image_set_number < workspace.image_set_list.count()-1
NotLastCycle(number, count) == number < count - 1

\* run in a cycle that is not the last one: it returns at once
RunEarlyCycle ==
    /\ pc.at = "idle"
    /\ NotLastCycle(image_set_number, measurements.count)
    /\ image_set_number' = image_set_number + 1
    /\ UNCHANGED <<object_groups, module_settings, workspace_frame,
                   measurements, pc, files, dirs, calls, opened, metaVars,
                   last_call>>

\* run in the last cycle: the loop over the object groups starts
RunLastCycle ==
    /\ pc.at = "idle"
    /\ ~NotLastCycle(image_set_number, measurements.count)
    /\ pc' = At("loop", 1, <<>>, <<>>, <<>>)
    /\ UNCHANGED <<object_groups, module_settings, workspace_frame,
                   measurements, image_set_number, files, dirs, calls,
                   opened, metaVars,
                   last_call>>

\* run reaches its next call of run_objects; an Experiment unit is written
\* at once, any other unit is split by the metadata of its file name
RunObjects ==
    /\ pc.at = "loop"
    /\ pc.i <= Len(object_groups)
    /\ LET unit == CollectUnit(object_groups, pc.i, <<>>, <<>>)
           object_names == unit.object_names
       IN  /\ calls' = Append(calls, [object_names |-> object_names,
                                      file_name |-> unit.file_name])
           /\ IF Len(object_names) = 1 /\ object_names[1] = EXPERIMENT
              THEN LET full == make_full_filename(module_settings, measurements,
                                                  unit.file_name, FALSE, 0)
                   IN  \E io \in IoOutcomes :
                       /\ io = "makedirs fails" => ~os_path_isdir(dirs, full.path)
                       /\ dirs' = os_makedirs(dirs, full.path, io)
                       /\ files' =
                            IF io = "makedirs fails" THEN files
                            ELSE write_rows(open_w(files, full.name, io),
                                            full.name, io,
                                            make_experiment_file(measurements))
                       /\ opened' =
                            IF io /= "ok" THEN opened
                            ELSE Append(opened,
                              [call |-> Len(calls) + 1, kind |-> "experiment",
                               name |-> full.name, object_names |-> object_names,
                               indexes |-> <<>>, cancelled |-> FALSE,
                               raised |-> FALSE, columns |-> <<>>,
                               closed |-> fd_closed(TryExit(FALSE, FALSE))])
                       /\ pc' = IF io /= "ok"
                                THEN At("failed", unit.next, object_names,
                                        unit.file_name, <<>>)
                                ELSE At("loop", unit.next, <<>>, <<>>, <<>>)
              ELSE LET metadata_groups ==
                          group_by_metadata(measurements,
                                            find_metadata_tokens(unit.file_name))
                   IN  /\ pc' = IF metadata_groups = <<>>
                                THEN At("loop", unit.next, <<>>, <<>>, <<>>)
                                ELSE At("files", unit.next, object_names,
                                        unit.file_name, metadata_groups)
                       /\ UNCHANGED <<files, dirs, opened>>
    /\ UNCHANGED <<object_groups, module_settings, workspace_frame,
                   measurements, image_set_number, metaVars,
                   last_call>>

\* run_objects makes the file of its next metadata group: make_image_file for
\* the unit [Image], make_object_file otherwise.  The directory is made and
\* the file is opened (and so emptied) before anything else; an exception
\* ends run: "failed" after an I/O error, "raised" after any other.
MakeFile ==
    /\ pc.at = "files"
    /\ \E reply \in Replies, io \in IoOutcomes :
        LET indexes == Head(pc.pending)
            full == make_full_filename(module_settings, measurements, pc.file_name,
                                       TRUE, indexes[1])
            is_image == Len(pc.object_names) = 1 /\ pc.object_names[1] = IMAGE
            made == IF is_image
                    THEN make_image_file(module_settings, measurements, workspace_frame, indexes, reply)
                    ELSE make_object_file(module_settings, measurements, workspace_frame,
                                          pc.object_names, indexes, reply)
        IN  /\ io = "makedirs fails" => ~os_path_isdir(dirs, full.path)
            /\ dirs' = os_makedirs(dirs, full.path, io)
            /\ files' = IF io = "makedirs fails" THEN files
                        ELSE write_rows(open_w(files, full.name, io),
                                        full.name, io, made.rows)
            /\ opened' =
                 IF io /= "ok" THEN opened
                 ELSE Append(opened,
                    [call |-> Len(calls),
                     kind |-> IF is_image THEN "image" ELSE "object",
                     name |-> full.name, object_names |-> pc.object_names,
                     indexes |-> indexes, cancelled |-> made.cancelled,
                     raised |-> made.raised, columns |-> made.columns,
                     closed |-> fd_closed(TryExit(made.cancelled, made.raised))])
            /\ pc' = IF io /= "ok"
                     THEN At("failed", pc.i, pc.object_names, pc.file_name,
                             Tail(pc.pending))
                     ELSE IF made.raised
                     THEN At("raised", pc.i, pc.object_names, pc.file_name,
                             Tail(pc.pending))
                     ELSE IF Tail(pc.pending) = <<>>
                     THEN At("loop", pc.i, <<>>, <<>>, <<>>)
                     ELSE [pc EXCEPT !.pending = Tail(pc.pending)]
    /\ UNCHANGED <<object_groups, module_settings, workspace_frame,
                   measurements, image_set_number, calls, metaVars,
                   last_call>>

\* the loop of run is over: run returns
RunReturns ==
    /\ pc.at = "loop"
    /\ pc.i > Len(object_groups)
    /\ pc' = At("done", pc.i, <<>>, <<>>, <<>>)
    /\ UNCHANGED <<object_groups, module_settings, workspace_frame,
                   measurements, image_set_number, files, dirs, calls,
                   opened, metaVars,
                   last_call>>

\* a variant of the loop body of visible_settings that looks at the
\* group's flag only
GroupVisibleByFlagOnly(groups, i) ==
    <<<<"object_name", i>>>>
    \o (IF is_object_group(groups[i])
        THEN <<<<"previous_file", i>>>>
             \o (IF ~groups[i].previous_file THEN <<<<"file_name", i>>>> ELSE <<>>)
        ELSE <<<<"file_name", i>>>>)
    \o <<<<"remove_button", i>>>>

\* visible_settings, the body of the loop for group i: the settings of the
\* group that are shown (previous_group is groups[i - 1], None for i = 1)
GroupVisible(groups, i) ==
    <<<<"object_name", i>>>>
    \o (IF is_object_group(groups[i])
        THEN IF i > 1 /\ is_object_group(groups[i - 1])
             THEN <<<<"previous_file", i>>>>
                  \o (IF ~groups[i].previous_file
                      THEN <<<<"file_name", i>>>> ELSE <<>>)
             ELSE <<<<"file_name", i>>>>
        ELSE <<<<"file_name", i>>>>)
    \o <<<<"remove_button", i>>>>

RECURSIVE GroupsVisibleFrom(_, _)
GroupsVisibleFrom(groups, i) ==
    IF i > Len(groups) THEN <<>>
    ELSE GroupVisible(groups, i) \o GroupsVisibleFrom(groups, i + 1)

\* visible_settings: each setting shown is (its name, the index of its
\* group), with index 0 for the settings of the module
visible_settings(groups) ==
    <<<<"delimiter", 0>>, <<"prepend_output_filename", 0>>, <<"add_metadata", 0>>,
      <<"add_indexes", 0>>, <<"excel_limits", 0>>, <<"pick_columns", 0>>>>
    \o GroupsVisibleFrom(groups, 1)
    \o <<<<"add_button", 0>>>>

\* the settings are shown after a run has returned (visible_settings reads
\* the object groups only, so it returns the same list at any other time)
VisibleSettings ==
    /\ pc.at = "done"
    /\ last_call = NoCall
    /\ last_call' = [op |-> "visible_settings",
                     result |-> visible_settings(object_groups)]
    /\ UNCHANGED <<metaVars, exportVars>>

ExportIdle ==
    /\ object_groups = <<OG("Nuclei", FALSE, <<"n">>)>>
    /\ module_settings = Options(TRUE, FALSE, FALSE, FALSE, FALSE)
    /\ workspace_frame = FALSE
    /\ measurements = M_PLATES
    /\ ExportStart

NextExport ==
    \/ RunEarlyCycle
    \/ RunLastCycle
    \/ RunObjects
    \/ MakeFile
    \/ RunReturns
    \/ VisibleSettings

InitMetadata == MetadataStart /\ ExportIdle

SpecMetadata == InitMetadata /\ [][NextMetadata]_vars

SpecExport == InitExport /\ [][NextExport]_vars

(***************************************************************************)
(* ExportToExcel: properties                                               *)
(***************************************************************************)
\* group i begins an output unit
StartsUnit(i) ==
    \/ i = 1
    \/ ~is_object_group(object_groups[i])
    \/ ~is_object_group(object_groups[i - 1])
    \/ ~object_groups[i].previous_file

UnitStarts == {i \in 1..Len(object_groups) : StartsUnit(i)}

UnitStart(k) ==
    CHOOSE s \in UnitStarts : Cardinality({t \in UnitStarts : t <= s}) = k

UnitEnd(k) ==
    IF k = Cardinality(UnitStarts) THEN Len(object_groups)
    ELSE UnitStart(k + 1) - 1

\* the k-th output unit: the names of its groups and its first group's file
ExpectedUnit(k) ==
    [object_names |-> [j \in 1..(UnitEnd(k) - UnitStart(k) + 1) |->
                         object_groups[UnitStart(k) + j - 1].name],
     file_name |-> object_groups[UnitStart(k)].file_name]

MergeExample ==
    <<OG("Nuclei", FALSE, <<"n">>), OG("Cells", TRUE, <<"x">>),
      OG("Cells", FALSE, <<"c">>)>>

MergeExampleCalls ==
    <<[object_names |-> <<"Nuclei", "Cells">>, file_name |-> <<"n">>],
      [object_names |-> <<"Cells">>, file_name |-> <<"c">>]>>

\* C6: run calls run_objects once per output unit, in order: a unit is a
\* maximal run of consecutive object groups in which every group after the
\* first combines with the previous one, and it uses its first group's file
\* name; Image, Experiment and non-merging groups start a unit.  The calls
\* made so far are always the first units, and when run returns they are all
\* the units; [A, B(merge), C] gives ([A, B], A's file) and ([C], C's file).
C6_MergePartitioning ==
    /\ Len(calls) <= Cardinality(UnitStarts)
    /\ \A k \in 1..Len(calls) : calls[k] = ExpectedUnit(k)
    /\ pc.at = "done" => Len(calls) = Cardinality(UnitStarts)
    /\ (pc.at = "done" /\ object_groups = MergeExample)
          => calls = MergeExampleCalls

C6_Witness ==
    /\ pc.at = "done"
    /\ object_groups = MergeExample
    /\ Len(calls) = 2
    /\ calls[1].object_names = <<"Nuclei", "Cells">>

LastOpened == opened[Len(opened)]

\* make_object_file has just written a whole file
ObjectFileWritten ==
    /\ opened /= <<>>
    /\ LastOpened.kind = "object"
    /\ ~LastOpened.cancelled

\* the data rows of image set img in the file just written
RowsOf(img) ==
    SelectSeq(files[LastOpened.name],
              LAMBDA row : row.kind = "data" /\ row.img = img)

\* the column of an object's own measurement
IsEntityColumn(col) == col[1] \in ObjectNames /\ col[2] /= OBJECT_NUMBER

\* C7: in an object file, every image set has as many data rows as the
\* largest Count_<entity> of the unit's entities, and in row i the column of
\* an entity's feature holds the entity's i-th value when the entity has
\* more than i values for the image and NaN otherwise (never zero).
C7_RowsPaddedWithNaN ==
    ObjectFileWritten =>
        \A k \in 1..Len(LastOpened.indexes) :
            LET img == LastOpened.indexes[k]
                rows == RowsOf(img)
                names == LastOpened.object_names
                columns == LastOpened.columns
            IN  /\ Len(rows) = Max({measurements.objects[names[j]][img] :
                                        j \in 1..Len(names)})
                /\ \A i \in 0..(Len(rows) - 1) : \A c \in 1..Len(columns) :
                      IsEntityColumn(columns[c]) =>
                        LET values == ObjectMeasurement(measurements,
                                          columns[c][1], columns[c][2], img)
                        IN  rows[i + 1].cells[c] =
                              IF i < Len(values) THEN CellStr(values[i + 1])
                              ELSE NaN

\* Nuclei has 3 objects and Cells 2 in image set 0: the third row holds the
\* value of Nuclei and NaN for Cells
C7_Witness ==
    /\ ObjectFileWritten
    /\ LastOpened.object_names = <<"Nuclei", "Cells">>
    /\ LastOpened.indexes[1] = 0
    /\ measurements.objects["Nuclei"][0] = 3
    /\ measurements.objects["Cells"][0] = 2
    /\ Len(RowsOf(0)) = 3
    /\ \E c, d \in 1..Len(LastOpened.columns) :
          /\ LastOpened.columns[c] = <<"Cells", "AreaShape_Area">>
          /\ LastOpened.columns[d] = <<"Nuclei", "AreaShape_Area">>
          /\ RowsOf(0)[3].cells[c] = NaN
          /\ RowsOf(0)[3].cells[d] /= NaN
          /\ RowsOf(0)[2].cells[c] /= NaN

\* the files opened during the c-th call of run_objects
OpenedBy(c) == SelectSeq(opened, LAMBDA e : e.call = c)

\* the metadata groups of the c-th call
MetadataGroups(c) ==
    group_by_metadata(measurements, find_metadata_tokens(calls[c].file_name))

\* the name of the file of a metadata group: the tag values of the group
\* put in place of the placeholders
SubstitutedName(c, indexes) ==
    make_full_filename(module_settings, measurements, calls[c].file_name,
                       TRUE, indexes[1]).name

SplitsByMetadata(c) ==
    LET groups == MetadataGroups(c)
        made == {OpenedBy(c)[k].name : k \in 1..Len(OpenedBy(c))}
    IN  /\ Cardinality(made) = Len(groups)
        /\ made = {SubstitutedName(c, groups[g]) : g \in 1..Len(groups)}
        /\ \A g \in 1..Len(groups) :
              LET name == SubstitutedName(c, groups[g])
              IN  /\ name \in DOMAIN files
                  /\ \A r \in 1..Len(files[name]) :
                        files[name][r].kind = "data" =>
                          \E j \in 1..Len(groups[g]) :
                              files[name][r].img = groups[g][j]
        /\ find_metadata_tokens(calls[c].file_name) = <<>> =>
              /\ Len(groups) = 1
              /\ groups[1] = [j \in 1..measurements.count |-> j - 1]

C9_CancelAbandonsOneFile ==
    /\ \A k \in 1..Len(opened) : opened[k].cancelled => ~opened[k].raised
    /\ pc.at /= "raised"

\* run has ended with an I/O error
Failed == pc.at = "failed"

\* C11: an I/O error when the directory is made or the file is opened ends
\* the writing of the output unit (no later step writes anything), and the
\* files written before it stay as they were written.
C11_IoErrorKeepsEarlierFiles ==
    [][/\ ~Failed
       /\ Failed' => (files' = files /\ opened' = opened)]_vars

\* an I/O error after a unit was written
C11_Witness ==
    /\ Failed
    /\ Len(calls) = 2
    /\ opened /= <<>>
    /\ files /= EmptyDict
    /\ \A k \in 1..Len(opened) : files[opened[k].name] /= <<>>

\* make_image_file has just written a file and the dialog was not cancelled
ImageFileWritten ==
    /\ opened /= <<>>
    /\ LastOpened.kind = "image"
    /\ ~LastOpened.cancelled

\* every feature name of a per-image file, sorted: the Image features, the
\* aggregate names and, with the add-index option, ImageNumber
AllImageFeatures ==
    SortedNames((IF module_settings.add_indexes THEN <<IMAGE_NUMBER>> ELSE <<>>)
                \o get_feature_names(measurements, IMAGE)
                \o SetToSeq(DOMAIN compute_aggregate_measurements(
                                       measurements, LastOpened.indexes[1])))

\* the value a per-image file shows for a feature of an image set
ExpectedImageValue(feature_name, index) ==
    LET agg == compute_aggregate_measurements(measurements, index)
        stored == ImageMeasurement(measurements, feature_name, index)
    IN  IF feature_name = IMAGE_NUMBER THEN index + 1
        ELSE IF feature_name \in DOMAIN agg THEN agg[feature_name]
        ELSE IF IsArrayValued(feature_name) THEN stored[1]
        ELSE stored

CallOver(c) == c < Len(calls) \/ pc.at \in {"loop", "done"}

\* the last Len(tail) elements of a file path are tail
EndsWith(path, tail) ==
    /\ Len(path) >= Len(tail)
    /\ SubSeq(path, Len(path) - Len(tail) + 1, Len(path)) = tail

\* make_experiment_file has just written a file
ExperimentFileWritten ==
    /\ opened /= <<>>
    /\ LastOpened.kind = "experiment"

\* C13: a unit that is the single entity Experiment is written as one file,
\* whatever the metadata of the image sets: its name is the file-name setting
\* as it stands (placeholders are not replaced), and it holds no header but
\* one row (feature name, values) per experiment feature; no other unit is
\* written this way.
C13_ExperimentFile ==
    /\ \A c \in 1..Len(calls) :
          (calls[c].object_names = <<EXPERIMENT>> /\ CallOver(c)) =>
              /\ Len(OpenedBy(c)) = 1
              /\ OpenedBy(c)[1].kind = "experiment"
              /\ EndsWith(OpenedBy(c)[1].name, calls[c].file_name)
    /\ \A k \in 1..Len(opened) :
          opened[k].kind = "experiment" =>
              calls[opened[k].call].object_names = <<EXPERIMENT>>
    /\ ExperimentFileWritten =>
          LET rows == files[LastOpened.name]
              names == get_feature_names(measurements, EXPERIMENT)
          IN  /\ Len(rows) = Len(names)
              /\ \A k \in 1..Len(rows) :
                    /\ rows[k].kind = "data"
                    /\ rows[k].cells =
                         <<names[k],
                           CellStr(get_all_measurements(measurements, names[k]))>>

\* an Experiment file whose name holds a placeholder, over image sets of two
\* plates
C13_Witness ==
    /\ ExperimentFileWritten
    /\ \E j \in 1..Len(calls[LastOpened.call].file_name) :
          IsToken(calls[LastOpened.call].file_name[j])
    /\ measurements.meta[0] /= measurements.meta[1]
    /\ Len(files[LastOpened.name]) = 2

\* a make_*_file has just written a file without being abandoned
FileWritten ==
    /\ opened /= <<>>
    /\ ~LastOpened.cancelled

\* the header rows the file of a unit is to start with
HeaderCount(object_names) == IF Len(object_names) > 1 THEN 2 ELSE 1

\* the file just written starts with n header rows and has no other
StartsWithHeaders(n) ==
    LET rows == files[LastOpened.name]
    IN  /\ Len(rows) >= n
        /\ \A r \in 1..Len(rows) : (rows[r].kind = "header") = (r <= n)

\* C14 as stated: every file written starts with header rows, two (entity
\* names, then feature names) when the unit merges several entities and one
\* (feature names) for every other unit.
C14_EveryFileStartsWithHeaders ==
    FileWritten => StartsWithHeaders(HeaderCount(LastOpened.object_names))

\* C14 as the code has it: the file of an Image or object unit starts with
\* header rows, two (entity names, then feature names) when the unit merges
\* several entities and one (feature names) otherwise; the file of the
\* Experiment unit has no header row.
C14_HeaderRows ==
    FileWritten =>
        LET rows == files[LastOpened.name]
            names == LastOpened.object_names
            columns == LastOpened.columns
        IN  IF LastOpened.kind = "experiment" THEN StartsWithHeaders(0)
            ELSE /\ StartsWithHeaders(HeaderCount(names))
                 /\ rows[HeaderCount(names)].cells =
                        [c \in 1..Len(columns) |-> columns[c][2]]
                 /\ Len(names) > 1 =>
                        rows[1].cells = [c \in 1..Len(columns) |-> columns[c][1]]

\* the file of a merged unit with its two header rows
C14_Witness ==
    /\ FileWritten
    /\ LastOpened.object_names = <<"Nuclei", "Cells">>
    /\ files[LastOpened.name][1].cells[1] = "Nuclei"
    /\ files[LastOpened.name][2].cells[1] = "AreaShape_Area"
    /\ files[LastOpened.name][3].kind = "data"

\* the column of a measurement of the image itself
IsImageColumn(col) == col[1] = IMAGE /\ col[2] /= IMAGE_NUMBER

\* C15: in an object file a column whose entity is Image holds the image's
\* one value in every object row of the image, up to the largest object
\* count of the image.
C15_ImageValueBroadcast ==
    ObjectFileWritten =>
        \A k \in 1..Len(LastOpened.indexes) :
            LET img == LastOpened.indexes[k]
                rows == RowsOf(img)
                names == LastOpened.object_names
                columns == LastOpened.columns
            IN  /\ Len(rows) = Max({measurements.objects[names[j]][img] :
                                        j \in 1..Len(names)})
                /\ \A r \in 1..Len(rows) : \A c \in 1..Len(columns) :
                      IsImageColumn(columns[c]) =>
                          rows[r].cells[c] =
                              CellStr(ImageMeasurement(measurements,
                                                       columns[c][2], img))

\* the Metadata_Plate column of an image set with three Nuclei and two Cells
C15_Witness ==
    /\ ObjectFileWritten
    /\ module_settings.add_metadata
    /\ LastOpened.object_names = <<"Nuclei", "Cells">>
    /\ Len(RowsOf(0)) = 3
    /\ \E c \in 1..Len(LastOpened.columns) :
          /\ LastOpened.columns[c] = <<IMAGE, "Metadata_Plate">>
          /\ \A r \in 1..3 : RowsOf(0)[r].cells[c] = CellStr(<<"A">>)

IsIndexColumn(col) == col[2] \in {IMAGE_NUMBER, OBJECT_NUMBER}

DELIMITER_TAB == <<"T", "a", "b">>
DELIMITER_COMMA == <<"C", "o", "m", "m", "a", " ", "(", "\"", ",", "\"", ")">>
SETTING_OG_OFFSET == 6
SETTING_OBJECT_GROUP_CT == 3

\* values of the delimiter setting: the two choices and texts of the user
Delimiters ==
    { DELIMITER_TAB, DELIMITER_COMMA, <<";">>, <<"\t">>, <<>>, <<";", ";">>,
      <<"T", "a">>, <<"C", "o", "m", "m", "a">> }

\* lists of columns handed to the dialog: short ones and ones about as long
\* as Excel allows
ColumnCounts ==
    {0, 1, 2, EXCEL_COLUMN_LIMIT - 1, EXCEL_COLUMN_LIMIT, EXCEL_COLUMN_LIMIT + 1}

ColumnList(n) == [j \in 1..n |-> j]

\* a variant that asks for one character whatever the choice
test_valid_by_length_only(delimiter) == Len(delimiter) /= 1

\* test_valid: TRUE when ValidationError is raised
test_valid(delimiter) ==
    Len(delimiter) /= 1 /\ delimiter \notin {DELIMITER_TAB, DELIMITER_COMMA}

\* the property delimiter_char
delimiter_char(delimiter) ==
    IF delimiter = DELIMITER_TAB THEN <<"\t">>
    ELSE IF delimiter = DELIMITER_COMMA THEN <<",">>
    ELSE delimiter

\* an object group with its OG_KEY
KeyedOG(name, previous_file, file_name, key) ==
    [name |-> name, previous_file |-> previous_file, file_name |-> file_name,
     key |-> key]

\* groups made one after the other by add_object_group and then given
\* their values
Keyed(groups) ==
    [j \in 1..Len(groups) |->
        KeyedOG(groups[j].name, groups[j].previous_file, groups[j].file_name, j)]

\* uuid.uuid4(): a key that no group carries (keys are numbered, and the
\* least number not in use stands for the new key)
uuid4(groups) ==
    CHOOSE key \in 1..(Len(groups) + 1) :
        \A j \in 1..Len(groups) : groups[j].key /= key

\* add_object_group: the new group, with the default values
AddedGroup(key) ==
    KeyedOG("None", FALSE, <<"D", "A", "T", "A", ".", "c", "s", "v">>, key)

add_object_group(groups) == Append(groups, AddedGroup(uuid4(groups)))

\* a variant that deletes the last group whatever the key
remove_last_object_group(groups, key) == SubSeq(groups, 1, Len(groups) - 1)

\* remove_object_group(key): index is the position of the first group
\* whose key is key, and that group is deleted
remove_object_group(groups, key) ==
    LET index == CHOOSE j \in 1..Len(groups) :
                    /\ groups[j].key = key
                    /\ \A i \in 1..(j - 1) : groups[i].key /= key
    IN  [j \in 1..(Len(groups) - 1) |->
            IF j < index THEN groups[j] ELSE groups[j + 1]]

\* Python's % and / for the values prepare_to_set_values meets
PyMod(a, b) == a % b
PyDiv(a, b) == a \div b

\* prepare_to_set_values: `while len(self.object_groups) > group_count`;
\* self.object_groups[-1] of an empty list raises IndexError
RECURSIVE RemoveGroups(_, _)
RemoveGroups(groups, group_count) ==
    IF ~(Len(groups) > group_count)
    THEN [raised |-> "no", groups |-> groups]
    ELSE IF groups = <<>>
    THEN [raised |-> "IndexError", groups |-> groups]
    ELSE RemoveGroups(remove_object_group(groups, groups[Len(groups)].key),
                      group_count)

\* prepare_to_set_values: `while len(self.object_groups) < group_count`
RECURSIVE AddGroups(_, _)
AddGroups(groups, group_count) ==
    IF ~(Len(groups) < group_count) THEN groups
    ELSE AddGroups(add_object_group(groups), group_count)

\* prepare_to_set_values(setting_values)
prepare_to_set_values(groups, setting_values) ==
    LET setting_count == Len(setting_values)
        group_count == PyDiv(setting_count - SETTING_OG_OFFSET,
                             SETTING_OBJECT_GROUP_CT)
        removed == RemoveGroups(groups, group_count)
    IN  IF PyMod(setting_count - SETTING_OG_OFFSET, SETTING_OBJECT_GROUP_CT) /= 0
        THEN [raised |-> "AssertionError", groups |-> groups]
        ELSE IF removed.raised /= "no" THEN removed
        ELSE [raised |-> "no", groups |-> AddGroups(removed.groups, group_count)]

\* settings(): the six settings of the module, then three per object group
RECURSIVE GroupSettings(_)
GroupSettings(groups) ==
    IF groups = <<>> THEN <<>>
    ELSE <<"object name", "previous file", "file name">>
         \o GroupSettings(Tail(groups))

settings(groups) ==
    <<"delimiter", "prepend_output_filename", "add_metadata", "add_indexes",
      "excel_limits", "pick_columns">> \o GroupSettings(groups)

\* cellprofiler.settings.YES, NO and DO_NOT_USE
YES == "Yes"
NO == "No"
DO_NOT_USE == "Do not use"

\* a saved setting value: a text in one piece; "%s.csv" % name adds a piece
Text(text) == <<text>>

\* a variant that takes the object names from all the values
RetainedNamesWithLast(setting_values) ==
    SelectSeq(setting_values, LAMBDA x : x /= Text(DO_NOT_USE))

\* backwards_compatibilize: [x for x in setting_values[:-1]
\*                           if x != cps.DO_NOT_USE]
RetainedNames(setting_values) ==
    SelectSeq(SubSeq(setting_values, 1, Len(setting_values) - 1),
              LAMBDA x : x /= Text(DO_NOT_USE))

\* backwards_compatibilize: the loop that extends setting_values by
\* [name, cps.NO, "%s.csv" % name] for every name
RECURSIVE NameTriples(_)
NameTriples(object_names) ==
    IF object_names = <<>> THEN <<>>
    ELSE <<Head(object_names), Text(NO), Append(Head(object_names), ".csv")>>
         \o NameTriples(Tail(object_names))

\* backwards_compatibilize: (setting_values, variable_revision_number,
\* from_matlab) as returned
backwards_compatibilize(setting_values, revision, from_matlab) ==
    LET given == [setting_values |-> setting_values,
                  variable_revision_number |-> revision,
                  from_matlab |-> from_matlab]
        a == IF given.variable_revision_number = 1 /\ given.from_matlab
             THEN [given EXCEPT
                      !.setting_values = Append(given.setting_values, Text(NO)),
                      !.variable_revision_number = 2]
             ELSE given
    IN  IF a.variable_revision_number = 2 /\ a.from_matlab
        THEN [setting_values |->
                 <<DELIMITER_TAB, Text(YES), Text(NO), Text(NO), Text(NO),
                   Text(NO)>> \o NameTriples(RetainedNames(a.setting_values)),
              variable_revision_number |-> 1,
              from_matlab |-> FALSE]
        ELSE a

\* the object choices of a Matlab pipeline: eight of them, of which the
\* first two and the last vary here
MatlabObjectChoices ==
    { <<x1, x2, Text(DO_NOT_USE), Text(DO_NOT_USE), Text(DO_NOT_USE),
        Text(DO_NOT_USE), Text(DO_NOT_USE), x8>> :
        x1, x2, x8 \in {Text("Nuclei"), Text(IMAGE), Text(DO_NOT_USE)} }

\* the saved settings backwards_compatibilize is given: Matlab revision 1
\* (the object choices), Matlab revision 2 (with the subdirectories
\* answer), and settings saved by this module
SavedExportSettings ==
    { [from_matlab |-> TRUE, revision |-> 1, setting_values |-> choices] :
        choices \in MatlabObjectChoices }
    \cup
    { [from_matlab |-> TRUE, revision |-> 2,
       setting_values |-> Append(choices, Text(subdirectories))] :
        choices \in MatlabObjectChoices, subdirectories \in {YES, NO} }
    \cup
    { [from_matlab |-> FALSE, revision |-> rev,
       setting_values |->
          <<DELIMITER_COMMA, Text(NO), Text(NO), Text(YES), Text(NO),
            Text(NO)>> \o NameTriples(names)] :
        rev \in {1, 2}, names \in {<<>>, <<Text("Cells")>>} }

\* the module as loaded or edited, before any of these calls
InitSettings ==
    /\ MetadataIdle
    /\ ExportStart
    /\ object_groups \in {Keyed(groups) :
                            groups \in SeqsOf({OG("Nuclei", FALSE, <<"n">>),
                                               OG("Cells", TRUE, <<"x">>)},
                                              1, MaxGroups)}
    /\ module_settings \in {Options(TRUE, FALSE, FALSE, excel, pick) :
                               excel, pick \in BOOLEAN}
    /\ workspace_frame \in BOOLEAN
    /\ measurements = M_PLATES

\* a call of user_filter_columns
UserFilterColumns ==
    /\ \E n \in ColumnCounts, reply \in Replies :
          LET columns == ColumnList(n)
              picked == user_filter_columns(workspace_frame, module_settings,
                                            columns, reply)
          IN  last_call' = [op |-> "user_filter_columns", columns |-> columns,
                            cancelled |-> picked.cancelled,
                            returned |-> picked.columns]
    /\ UNCHANGED <<metaVars, exportVars>>

\* a call of test_valid, and delimiter_char read after it
TestValid ==
    /\ \E delimiter \in Delimiters :
          last_call' = [op |-> "test_valid", delimiter |-> delimiter,
                        raised |-> test_valid(delimiter),
                        delimiter_char |-> delimiter_char(delimiter)]
    /\ UNCHANGED <<metaVars, exportVars>>

\* a call of prepare_to_set_values with a settings sequence of any length
PrepareToSetValues ==
    /\ \E n \in 0..(SETTING_OG_OFFSET + SETTING_OBJECT_GROUP_CT * MaxGroups) :
          LET setting_values == [j \in 1..n |-> "value"]
              r == prepare_to_set_values(object_groups, setting_values)
          IN  /\ object_groups' = r.groups
              /\ last_call' = [op |-> "prepare_to_set_values",
                               setting_values |-> setting_values,
                               before |-> object_groups, raised |-> r.raised]
    /\ UNCHANGED <<metaVars, module_settings, workspace_frame, measurements,
                   image_set_number, pc, files, dirs, calls, opened>>

\* a saved pipeline is loaded: backwards_compatibilize comes before any
\* other call
BackwardsCompatibilize ==
    /\ last_call = NoCall
    /\ \E saved \in SavedExportSettings :
          last_call' = [op |-> "backwards_compatibilize", given |-> saved,
                        result |-> backwards_compatibilize(saved.setting_values,
                                                           saved.revision,
                                                           saved.from_matlab)]
    /\ UNCHANGED <<metaVars, exportVars>>

NextSettings ==
    \/ UserFilterColumns
    \/ TestValid
    \/ PrepareToSetValues
    \/ BackwardsCompatibilize

SpecSettings == InitSettings /\ [][NextSettings]_vars

\* the module as loaded, before its list of groups is edited
InitGroups ==
    /\ MetadataIdle
    /\ ExportStart
    /\ object_groups \in {Keyed(groups) :
                            groups \in SeqsOf({OG("Nuclei", FALSE, <<"n">>),
                                               OG("Cells", TRUE, <<"x">>)},
                                              1, MaxGroups)}
    /\ module_settings = Options(TRUE, FALSE, FALSE, FALSE, FALSE)
    /\ workspace_frame = FALSE
    /\ measurements = M_PLATES

\* the "Add" button: add_object_group
AddObjectGroup ==
    /\ Len(object_groups) < MaxGroups
    /\ object_groups' = add_object_group(object_groups)
    /\ last_call' = [op |-> "add_object_group", before |-> object_groups]
    /\ UNCHANGED <<metaVars, module_settings, workspace_frame, measurements,
                   image_set_number, pc, files, dirs, calls, opened>>

\* the "Remove" button of a group: remove_object_group(key) with the key
\* the button was made with
RemoveObjectGroup ==
    /\ \E j \in 1..Len(object_groups) :
          LET key == object_groups[j].key
          IN  /\ object_groups' = remove_object_group(object_groups, key)
              /\ last_call' = [op |-> "remove_object_group", key |-> key,
                               before |-> object_groups]
    /\ UNCHANGED <<metaVars, module_settings, workspace_frame, measurements,
                   image_set_number, pc, files, dirs, calls, opened>>

NextGroups ==
    \/ AddObjectGroup
    \/ RemoveObjectGroup
    \/ PrepareToSetValues

SpecGroups == InitGroups /\ [][NextGroups]_vars

\* C17: when the column dialog is bypassed (there is no frame, or the
\* pick-columns option is off and the Excel-limit option is off or there are
\* fewer than 256 columns), user_filter_columns returns the list of columns
\* it was given, unchanged and in the same order.
C17_BypassReturnsAllColumns ==
    (/\ last_call.op = "user_filter_columns"
     /\ \/ ~workspace_frame
        \/ /\ ~module_settings.pick_columns
           /\ \/ ~module_settings.excel_limits
              \/ Len(last_call.columns) < 256)
        => (~last_call.cancelled /\ last_call.returned = last_call.columns)

\* 255 columns with the Excel-limit option set and a frame: no dialog
C17_Witness ==
    /\ last_call.op = "user_filter_columns"
    /\ workspace_frame
    /\ ~module_settings.pick_columns
    /\ module_settings.excel_limits
    /\ Len(last_call.columns) = 255
    /\ last_call.returned = last_call.columns

\* C18: test_valid raises exactly when the delimiter is neither the Tab nor
\* the Comma choice and is not one character long; so when it passes,
\* delimiter_char is one character: a tab for Tab, a comma for Comma, and the
\* user's character otherwise.
C18_DelimiterValidation ==
    last_call.op = "test_valid" =>
        LET delimiter == last_call.delimiter
            is_choice == delimiter = DELIMITER_TAB \/ delimiter = DELIMITER_COMMA
        IN  /\ last_call.raised = (~is_choice /\ Len(delimiter) /= 1)
            /\ ~last_call.raised =>
                  /\ Len(last_call.delimiter_char) = 1
                  /\ last_call.delimiter_char =
                        IF delimiter = DELIMITER_TAB THEN <<"\t">>
                        ELSE IF delimiter = DELIMITER_COMMA THEN <<",">>
                        ELSE delimiter

\* the Tab choice passes validation and stands for the tab character
C18_Witness ==
    /\ last_call.op = "test_valid"
    /\ last_call.delimiter = DELIMITER_TAB
    /\ ~last_call.raised
    /\ last_call.delimiter_char = <<"\t">>

\* C19: prepare_to_set_values rejects, with an assertion failure and the
\* groups unchanged, a settings sequence whose length minus 6 is not a
\* multiple of 3; any other sequence leaves (length - 6) / 3 object groups,
\* groups being removed from the end or appended, so that settings() is as
\* long as the sequence.
C19_PrepareToSetValues ==
    last_call.op = "prepare_to_set_values" =>
        LET n == Len(last_call.setting_values)
            before == last_call.before
        IN  IF (n - 6) % 3 /= 0
            THEN /\ last_call.raised = "AssertionError"
                 /\ object_groups = before
            ELSE /\ last_call.raised = "no"
                 /\ 3 * Len(object_groups) = n - 6
                 /\ Len(settings(object_groups)) = n
                 /\ \A j \in 1..Len(object_groups) :
                       object_groups[j] =
                          IF j <= Len(before) THEN before[j]
                          ELSE AddedGroup(object_groups[j].key)

(***************************************************************************)
(* applythreshold.py.  An image is a row of pixels; an intensity is a      *)
(* whole number of steps (0 is black, the largest level is 1.0).           *)
(***************************************************************************)
GRAYSCALE == "Grayscale"
BINARY == "Binary (black and white)"
TM_MANUAL == "Manual"
TM_OTSU == "Otsu"

Levels == {0, 1, 2}

\* the settings run reads; a setting that the chosen mode does not use keeps
\* its default
ThresholdSettings(binary, low, low_threshold, shift, high, high_threshold, dilation, threshold_method, manual_threshold) ==
    [binary |-> binary, low |-> low, low_threshold |-> low_threshold,
     shift |-> shift, high |-> high, high_threshold |-> high_threshold,
     dilation |-> dilation, threshold_method |-> threshold_method,
     manual_threshold |-> manual_threshold]

BinarySettings ==
    { ThresholdSettings(BINARY, FALSE, 0, FALSE, FALSE, 2, 0, method, manual) :
        method \in {TM_MANUAL, TM_OTSU}, manual \in Levels }

GrayscaleSettings ==
    { ThresholdSettings(GRAYSCALE, low, IF low THEN low_threshold ELSE 0,
                        low /\ shift, high, IF high THEN high_threshold ELSE 2,
                        IF high THEN dilation ELSE 0, TM_OTSU, 1) :
        low \in BOOLEAN, low_threshold \in Levels, shift \in BOOLEAN,
        high \in BOOLEAN, high_threshold \in Levels, dilation \in {0, 1} }

\* Identify.get_threshold: the manual threshold, or the one the method
\* computes from the image
get_threshold(self, computed) ==
    IF self.threshold_method = TM_MANUAL THEN self.manual_threshold
    ELSE computed

\* strel_disk(radius) on a row of pixels: the pixels at most radius away
strel_disk(radius, j, k) == (IF j >= k THEN j - k ELSE k - j) <= radius

\* binary_dilation(input, structure, mask = mask): only pixels of the mask
\* are modified
binary_dilation(input, radius, mask) ==
    [j \in 1..Len(input) |->
        IF mask[j]
        THEN \E k \in 1..Len(input) : strel_disk(radius, j, k) /\ input[k]
        ELSE input[j]]

\* run, binary output: (pixels > local_thresh) & input.mask
ThresholdBinary(pixels, mask, local_thresh) ==
    [j \in 1..Len(pixels) |->
        IF pixels[j] > local_thresh /\ mask[j] THEN 1 ELSE 0]

\* the low threshold applied without looking at the mask or the shift
ThresholdLowEverywhere(self, pixels, mask) ==
    IF ~self.low THEN pixels
    ELSE [j \in 1..Len(pixels) |->
            IF pixels[j] < self.low_threshold THEN 0 ELSE pixels[j]]

\* run, grayscale output: the low threshold with its shift
ThresholdLow(self, pixels, mask) ==
    IF ~self.low THEN pixels
    ELSE [j \in 1..Len(pixels) |->
            IF mask[j] /\ pixels[j] < self.low_threshold THEN 0
            ELSE IF self.shift /\ mask[j] /\ ~(pixels[j] < self.low_threshold)
            THEN pixels[j] - self.low_threshold
            ELSE pixels[j]]

\* run, grayscale output: the high threshold with its dilation
ThresholdHigh(self, pixels, mask) ==
    IF ~self.high THEN pixels
    ELSE LET undilated == [j \in 1..Len(pixels) |->
                             mask[j] /\ pixels[j] >= self.high_threshold]
             dilated == binary_dilation(undilated, self.dilation, mask)
         IN  [j \in 1..Len(pixels) |-> IF dilated[j] THEN 0 ELSE pixels[j]]

\* ApplyThreshold.run: the pixels of the output image
ApplyThreshold(self, pixels, mask, computed) ==
    IF self.binary /= GRAYSCALE
    THEN ThresholdBinary(pixels, mask, get_threshold(self, computed))
    ELSE ThresholdHigh(self, ThresholdLow(self, pixels, mask), mask)

\* ApplyThreshold.settings: the settings by name, in the order they are
\* saved
ApplyThreshold_settings ==
    <<"image_name", "thresholded_image_name", "binary", "low", "high",
      "low_threshold", "shift", "high_threshold", "dilation",
      "threshold_method", "manual_threshold", "threshold_range",
      "threshold_correction_factor", "object_fraction",
      "enclosing_objects_name", "two_class_otsu", "use_weighted_variance",
      "assign_middle_to_foreground">>

variable_revision_number == 3

\* the Otsu choices of Identify
O_TWO_CLASS == "Two classes"
O_WEIGHTED_VARIANCE == "Weighted variance"
O_FOREGROUND == "Foreground"

\* a value read from a saved pipeline: the setting it was saved for and
\* its text
SavedValue(name, text) == <<"saved", name, text>>

\* a value that upgrade_settings writes itself
Literal(text) == <<"literal", "", text>>

\* float(value) in tenths, for the texts of the saved thresholds
float_tenths(value) ==
    CASE value[3] = "0" -> 0
      [] value[3] = "0.0" -> 0
      [] value[3] = "0.5" -> 5
      [] value[3] = "1" -> 10

\* upgrade_settings, from_matlab and revision 4: the seven Matlab values
\* become the fifteen of revision 2
UpgradeMatlab4(setting_values) ==
    LET placed == <<setting_values[1], setting_values[2], Literal("(None)"),
                    Literal("(None)"), Literal("(None)"), setting_values[3],
                    setting_values[4], setting_values[5], setting_values[6],
                    Literal(TM_MANUAL), setting_values[7], Literal("0,1"),
                    Literal("1"), Literal(".2"), Literal("None")>>
    IN  [placed EXCEPT
            ![3] = Literal(IF float_tenths(placed[11]) > 0 THEN BINARY
                           ELSE GRAYSCALE),
            ![4] = Literal(IF float_tenths(placed[6]) > 0 THEN YES ELSE NO),
            ![5] = Literal(IF float_tenths(placed[8]) > 0 THEN YES ELSE NO)]

\* a variant that appends the new values after the ten saved ones
UpgradeRevision1Appending(setting_values) ==
    setting_values
    \o <<Literal(TM_MANUAL), Literal("O,1"), Literal("1"), Literal(".2"),
         Literal("None")>>

\* upgrade_settings, revision 1: setting_values[:9] + [TM_MANUAL,
\* setting_values[9], "O,1", "1", ".2", "None"]
UpgradeRevision1(setting_values) ==
    SubSeq(setting_values, 1, 9)
    \o <<Literal(TM_MANUAL), setting_values[10], Literal("O,1"), Literal("1"),
         Literal(".2"), Literal("None")>>

\* upgrade_settings, revision 2: the Otsu options are added
UpgradeRevision2(setting_values) ==
    setting_values
    \o <<Literal(O_TWO_CLASS), Literal(O_WEIGHTED_VARIANCE),
         Literal(O_FOREGROUND)>>

\* upgrade_settings: (setting_values, variable_revision_number,
\* from_matlab) as returned, or NotImplementedError
upgrade_settings(setting_values, revision, from_matlab) ==
    LET given == [raised |-> FALSE, setting_values |-> setting_values,
                  variable_revision_number |-> revision,
                  from_matlab |-> from_matlab]
        a == IF given.from_matlab /\ given.variable_revision_number = 4
             THEN [given EXCEPT
                      !.setting_values = UpgradeMatlab4(given.setting_values),
                      !.variable_revision_number = 2,
                      !.from_matlab = FALSE]
             ELSE given
        b == IF ~a.from_matlab /\ a.variable_revision_number = 1
             THEN [a EXCEPT
                      !.setting_values = UpgradeRevision1(a.setting_values),
                      !.variable_revision_number = 2]
             ELSE a
        c == IF ~b.from_matlab /\ b.variable_revision_number = 2
             THEN [b EXCEPT
                      !.setting_values = UpgradeRevision2(b.setting_values),
                      !.variable_revision_number = 3]
             ELSE b
    IN  IF from_matlab /\ revision < 4
        THEN [given EXCEPT !.raised = TRUE]
        ELSE c

\* the settings a Matlab revision-4 pipeline holds, in its order
MatlabSettings ==
    <<"image_name", "thresholded_image_name", "low_threshold", "shift",
      "high_threshold", "dilation", "manual_threshold">>

\* the settings a revision-1 pipeline holds: the first nine and the manual
\* threshold
Revision1Settings ==
    SubSeq(ApplyThreshold_settings, 1, 9) \o <<"manual_threshold">>

\* the saved forms upgrade_settings is given: the values in the form's
\* order, thresholds zero or not
SavedForms ==
    { [from_matlab |-> TRUE, revision |-> rev,
       setting_values |->
          [j \in 1..7 |->
              SavedValue(MatlabSettings[j],
                         CASE j = 3 -> low [] j = 5 -> high [] j = 7 -> manual
                           [] OTHER -> "s")]] :
        rev \in {3, 4}, low \in {"0.0", "0.5"}, high \in {"0", "1"},
        manual \in {"0", "0.5"} }
    \cup
    { [from_matlab |-> FALSE, revision |-> rev,
       setting_values |->
          [j \in 1..(CASE rev = 1 -> 10 [] rev = 2 -> 15 [] rev = 3 -> 18) |->
              SavedValue(IF rev = 1 THEN Revision1Settings[j]
                         ELSE ApplyThreshold_settings[j], "s")]] :
        rev \in {1, 2, 3} }

InitThreshold == MetadataIdle /\ ExportIdle

\* a saved pipeline is loaded: upgrade_settings
UpgradeSettings ==
    /\ last_call = NoCall
    /\ \E form \in SavedForms :
          last_call' = [op |-> "upgrade_settings", given |-> form,
                        result |-> upgrade_settings(form.setting_values,
                                                    form.revision,
                                                    form.from_matlab)]
    /\ UNCHANGED <<metaVars, exportVars>>

\* a run of the module in binary mode on some image (run keeps nothing from
\* one image set to the next, so one run is followed)
RunBinary ==
    /\ last_call = NoCall
    /\ \E self \in BinarySettings, computed \in Levels,
          pixels \in [1..MaxPixels -> Levels], mask \in [1..MaxPixels -> BOOLEAN] :
          last_call' = [op |-> "ApplyThreshold.run", self |-> self,
                        pixels |-> pixels, mask |-> mask,
                        local_thresh |-> get_threshold(self, computed),
                        output |-> ApplyThreshold(self, pixels, mask, computed)]
    /\ UNCHANGED <<metaVars, exportVars>>

\* a run of the module in grayscale mode on some image
RunGrayscale ==
    /\ last_call = NoCall
    /\ \E self \in GrayscaleSettings,
          pixels \in [1..MaxPixels -> Levels], mask \in [1..MaxPixels -> BOOLEAN] :
          last_call' = [op |-> "ApplyThreshold.run", self |-> self,
                        pixels |-> pixels, mask |-> mask,
                        local_thresh |-> 0,
                        output |-> ApplyThreshold(self, pixels, mask, 0)]
    /\ UNCHANGED <<metaVars, exportVars>>

NextThreshold ==
    \/ RunBinary
    \/ RunGrayscale
    \/ UpgradeSettings

SpecThreshold == InitThreshold /\ [][NextThreshold]_vars

\* C20: in binary mode the output is 1 for a pixel inside the mask whose
\* intensity is greater than or equal to the threshold, and 0 for every
\* other pixel: pixels below the threshold and pixels outside the mask.
C20_BinaryAtLeastThreshold ==
    (last_call.op = "ApplyThreshold.run" /\ last_call.self.binary = BINARY) =>
        \A j \in 1..Len(last_call.pixels) :
            last_call.output[j] =
                IF last_call.mask[j] /\ last_call.pixels[j] >= last_call.local_thresh
                THEN 1 ELSE 0

GrayscaleRun ==
    last_call.op = "ApplyThreshold.run" /\ last_call.self.binary = GRAYSCALE

\* what the low threshold alone leaves of pixel j
LowOutcome(j) ==
    IF ~last_call.mask[j] THEN last_call.pixels[j]
    ELSE IF last_call.pixels[j] < last_call.self.low_threshold THEN 0
    ELSE IF last_call.self.shift
    THEN last_call.pixels[j] - last_call.self.low_threshold
    ELSE last_call.pixels[j]

C22_OnlyOnLastCycle ==
    /\ image_set_number < measurements.count - 1 =>
          /\ files = EmptyDict
          /\ dirs = {DefaultOutputDirectory}
          /\ opened = <<>>
          /\ calls = <<>>
          /\ pc.at = "idle"
    /\ \A k \in 1..Len(calls) :
          calls[k].object_names[1] = object_groups[UnitStart(k)].name
    /\ \A k \in 1..(Len(opened) - 1) : opened[k].call <= opened[k + 1].call
    /\ pc.at = "done" =>
          /\ image_set_number = measurements.count - 1
          /\ Len(calls) = Cardinality(UnitStarts)

\* a run that returned in the last cycle, after earlier cycles, with files
\* of two units written
C22_Witness ==
    /\ pc.at = "done"
    /\ image_set_number = measurements.count - 1
    /\ image_set_number >= 1
    /\ Len(calls) = 2
    /\ \E j, k \in 1..Len(opened) :
          /\ opened[j].call = 1 /\ opened[k].call = 2
          /\ files[opened[j].name] /= <<>>
          /\ files[opened[k].name] /= <<>>

\* the first group of the k-th call of run_objects
RECURSIVE CallStart(_)
CallStart(k) ==
    IF k = 1 THEN 1 ELSE CallStart(k - 1) + Len(calls[k - 1].object_names)

\* run used the file-name setting of group i for a unit
FileNameUsed(i) ==
    \E k \in 1..Len(calls) :
        CallStart(k) = i /\ calls[k].file_name = object_groups[i].file_name

\* run appended group i to the unit of the group before it
AppendedToPredecessor(i) ==
    \E k \in 1..Len(calls) :
        /\ CallStart(k) < i
        /\ i < CallStart(k) + Len(calls[k].object_names)
        /\ calls[k].object_names[i - CallStart(k) + 1] = object_groups[i].name

\* visible_settings shows setting name of group i
Shown(name, i) == <<name, i>> \in Range(last_call.result)

\* C23: for every list of groups, run uses a group's own file-name setting
\* exactly when visible_settings shows the group's file-name field; the
\* field is hidden exactly for an object group whose predecessor is an
\* object group and whose combine flag is set, and exactly those groups are
\* appended to the predecessor's unit; a combine flag on a group that is
\* Image or Experiment, or whose predecessor is, or that is the first, has
\* no effect.
C23_FileNameShownIffUsed ==
    last_call.op = "visible_settings" =>
        \A i \in 1..Len(object_groups) :
            LET combines == /\ i > 1
                            /\ is_object_group(object_groups[i])
                            /\ is_object_group(object_groups[i - 1])
                            /\ object_groups[i].previous_file
            IN  /\ Shown("file_name", i) <=> FileNameUsed(i)
                /\ Shown("file_name", i) <=> ~combines
                /\ AppendedToPredecessor(i) <=> combines
                /\ FileNameUsed(i) <=> ~AppendedToPredecessor(i)

\* a list with a combining group and a stale flag on an Image group whose
\* file name is shown and used
C23_Witness ==
    /\ last_call.op = "visible_settings"
    /\ Len(object_groups) = 3
    /\ object_groups[2] = OG("Cells", TRUE, <<"x">>)
    /\ object_groups[3] = OG(IMAGE, TRUE, <<"d", "/", "i">>)
    /\ is_object_group(object_groups[1])
    /\ ~Shown("file_name", 2) /\ AppendedToPredecessor(2)
    /\ Shown("file_name", 3) /\ FileNameUsed(3)

\* C24: get_ipd_metadata does not modify the record: a call leaves every
\* record, its metadata mapping included, as it was; the mapping returned
\* holds every key of the record's own mapping; a second call on the same
\* record with the same rules returns an equal mapping; and update_table,
\* which calls it twice for every record, leaves the records as they were
\* (called by on_activated, as the pipeline lists them).
C24_RecordNotModified ==
    [][/\ last'.op = "get_ipd_metadata" =>
             /\ ipds' = ipds
             /\ ~last'.raised =>
                   /\ DOMAIN ipds[last'.ipd].metadata \subseteq DOMAIN last'.value
                   /\ get_ipd_metadata(extraction_methods', ipds'[last'.ipd])
                         = Returned(last'.value)
       /\ last'.op = "update_table" => ipds' = ipds
       /\ last'.op = "on_activated" =>
             \A j \in 1..Len(ipds') : ipds'[j] \in Range(pipeline_ipds)]_vars

\* a call that returned more than the record's own, non-empty mapping
C24_Witness ==
    /\ Called
    /\ ~last.raised
    /\ CalledIpd.metadata /= EmptyDict
    /\ last.value /= CalledIpd.metadata
    /\ DOMAIN CalledIpd.metadata \subseteq DOMAIN last.value

KeysOf(groups) == [j \in 1..Len(groups) |-> groups[j].key]

\* C26: after any sequence of add_object_group, remove_object_group(key)
\* and prepare_to_set_values calls, the groups have pairwise distinct keys
\* and settings() has 6 + 3 * (number of groups) entries; add_object_group
\* appends one group at the end and keeps the others; and
\* remove_object_group(key) deletes the group carrying the key and keeps
\* the other groups in their order.
C26_GroupListEdits ==
    /\ \A i, j \in 1..Len(object_groups) :
          object_groups[i].key = object_groups[j].key => i = j
    /\ Len(settings(object_groups)) = 6 + 3 * Len(object_groups)
    /\ last_call.op = "add_object_group" =>
          /\ Len(object_groups) = Len(last_call.before) + 1
          /\ SubSeq(object_groups, 1, Len(last_call.before)) = last_call.before
    /\ last_call.op = "remove_object_group" =>
          /\ last_call.key \notin Range(KeysOf(object_groups))
          /\ object_groups =
                SelectSeq(last_call.before, LAMBDA g : g.key /= last_call.key)
          /\ Len(object_groups) = Len(last_call.before) - 1

\* a group that is not the last one was removed after a group was added
C26_Witness ==
    /\ last_call.op = "remove_object_group"
    /\ Len(last_call.before) = 3
    /\ last_call.before[1].key = last_call.key
    /\ last_call.before[3].name = "None"
    /\ Len(object_groups) = 2
    /\ KeysOf(object_groups) /= <<1, 2>>

IsSavedValue(value) == value[1] = "saved"

\* C27: upgrade_settings brings a Matlab revision-4 form (7 values) and the
\* revision 1 (10 values), 2 (15 values) and 3 (18 values) forms to the
\* current form: from_matlab is false, the revision is 3, the module's
\* variable_revision_number, and there are 18 values, as many as settings()
\* has; every saved value is carried over, and it stands at the position
\* of its setting in settings().
C27_UpgradeSettings ==
    (last_call.op = "upgrade_settings" /\ ~last_call.result.raised) =>
        LET values == last_call.result.setting_values
            given == last_call.given.setting_values
        IN  /\ ~last_call.result.from_matlab
            /\ last_call.result.variable_revision_number = 3
            /\ variable_revision_number = 3
            /\ Len(values) = 18
            /\ Len(values) = Len(ApplyThreshold_settings)
            /\ \A j \in 1..Len(given) : given[j] \in Range(values)
            /\ \A j \in 1..Len(values) :
                  IsSavedValue(values[j]) =>
                      values[j][2] = ApplyThreshold_settings[j]

\* a Matlab form with a binary threshold was upgraded
C27_Witness ==
    /\ last_call.op = "upgrade_settings"
    /\ ~last_call.result.raised
    /\ last_call.given.from_matlab
    /\ Len(last_call.given.setting_values) = 7
    /\ last_call.result.setting_values[3] = Literal(BINARY)
    /\ last_call.result.setting_values[4] = Literal(YES)
    /\ last_call.result.setting_values[11] = SavedValue("manual_threshold", "0.5")

\* the object names a Matlab sequence names: its values but the last one
\* of revision 2 (the subdirectories answer) that are not "Do not use"
NamesGiven ==
    LET given == last_call.given.setting_values
        choices == IF last_call.given.revision = 1 THEN given
                   ELSE SubSeq(given, 1, Len(given) - 1)
    IN  SelectSeq(choices, LAMBDA x : x /= Text(DO_NOT_USE))

\* C28: backwards_compatibilize converts a Matlab revision-1 or revision-2
\* sequence to a non-Matlab revision-1 sequence: 6 values for the module,
\* then (name, No, name.csv) for every object name given that is not "Do
\* not use", in order; its length is 6 + 3k and prepare_to_set_values
\* accepts it; a non-Matlab sequence is returned unchanged, with its
\* revision.
C28_BackwardsCompatibilize ==
    last_call.op = "backwards_compatibilize" =>
        LET given == last_call.given
            result == last_call.result
            values == result.setting_values
        IN  IF given.from_matlab
            THEN /\ ~result.from_matlab
                 /\ result.variable_revision_number = 1
                 /\ Len(values) = 6 + 3 * Len(NamesGiven)
                 /\ \A k \in 1..Len(NamesGiven) :
                       /\ values[6 + 3 * k - 2] = NamesGiven[k]
                       /\ values[6 + 3 * k - 1] = Text(NO)
                       /\ values[6 + 3 * k] = Append(NamesGiven[k], ".csv")
                 /\ (Len(values) - 6) % 3 = 0
                 /\ prepare_to_set_values(object_groups, values).raised = "no"
            ELSE /\ values = given.setting_values
                 /\ result.variable_revision_number = given.revision
                 /\ ~result.from_matlab

\* a Matlab revision-1 sequence with two names, one in the last place
C28_Witness ==
    /\ last_call.op = "backwards_compatibilize"
    /\ last_call.given.from_matlab
    /\ last_call.given.revision = 1
    /\ last_call.given.setting_values[8] = Text(IMAGE)
    /\ Len(last_call.result.setting_values) = 12
    /\ last_call.result.setting_values[12] = <<IMAGE, ".csv">>
====
